---------------------------- MODULE Spec2Model ----------------------------
(***************************************************************************)
(* FinAPIU: the soft-delete + audit-history core of the task and article   *)
(* back end (src/task/routes.py, src/article/routes.py, src/db/models.py). *)
(*                                                                         *)
(* The state is the content of the tables tasks, task_history, articles,   *)
(* article_history, article_images and users, the clock, and the response  *)
(* to the last request.  Every HTTP handler is one action: it is run as    *)
(* one database transaction, so the action is the whole handler, from the  *)
(* SELECT that fetches the entity to the commit or the rollback.           *)
(*                                                                         *)
(* Optional columns and optional form fields are modelled as sequences of  *)
(* length at most one: None is <<>> and a value v is <<v>>.                *)
(* The columns due_date, priority, created_at and updated_at are left out: *)
(* the handlers treat due_date and priority exactly as status.             *)
(***************************************************************************)
EXTENDS Integers, Sequences, FiniteSets, TLC

VARIABLES users, tasks, task_history, articles, article_history,
          article_images, now, resp, inflight

vars == <<users, tasks, task_history, articles, article_history,
          article_images, now, resp, inflight>>

(***************************************************************************)
(* Bounds of the model.                                                    *)
(***************************************************************************)
\* rows of task_history plus rows of article_history, per specification
MaxRecords == 3
MaxLifeRecords == 4
MaxEditRecords == 4
\* history rows while requests overlap
MaxConcRecords == 4
\* history rows while update_article requests overlap
MaxRaceRecords == 4
\* history rows while a reassign request overlaps with delete_user
MaxAssignRecords == 3

(***************************************************************************)
(* Program constants.                                                      *)
(***************************************************************************)
ADMIN_ROLE_ID == 2
STANDARD_ROLE_ID == 1
RETENTION_DAYS == 7

None == <<>>
Some(v) == <<v>>
IsSome(o) == o # <<>>
Val(o) == o[1]

(***************************************************************************)
(* The users table.  Users 1 and 2 are standard, 3 holds the elevated      *)
(* role, 4 was soft-deleted earlier.  No user has id 9.  Users 1 and 4     *)
(* work the day shift, user 2 the night shift, user 3 has no shift set.    *)
(***************************************************************************)
UserIds == {1, 2, 3, 4}
\* the username each of them registered with; the email is the username
\* followed by "@x"
InitUsernames == <<"ann", "bob", "cat", "dan">>
InitUsers ==
  [u \in UserIds |->
     [role_id |-> IF u = 3 THEN ADMIN_ROLE_ID ELSE STANDARD_ROLE_ID,
      is_deleted |-> (u = 4),
      deleted_at |-> IF u = 4 THEN Some(0) ELSE None,
      username |-> InitUsernames[u],
      email |-> InitUsernames[u] \o "@x",
      hashed_password |-> <<"bcrypt", "pw">>,
      shift |-> IF u = 2 THEN "night" ELSE IF u = 3 THEN "" ELSE "day"]]

\* the authenticated callers of the requests
Actors == {1, 2, 3}
\* the callers that create entities
Authors == {1}
Comments == {<<"why">>}
\* the clock readings the model samples, in days: the time of the first
\* request, the last day of the retention window after it and the day after
Instants == {0, RETENTION_DAYS, RETENTION_DAYS + 1}
\* the readings sampled when every kind of request is issued
CoarseInstants == {0, RETENTION_DAYS + 1}
\* storage faults injected into a request: none, or the commit fails with
\* an exception of that text
Faults == {"none", "db", "timeout"}
\* an uploaded file is modelled by the extension of its name

Min(a, b) == IF a < b THEN a ELSE b

(***************************************************************************)
(* Responses.  An HTTPException carries a status code and a detail; the    *)
(* handlers that wrap their body in try/except Exception catch their own   *)
(* HTTPException and answer 500 with str(e) = "<code>: <detail>" appended  *)
(* to their own message.                                                   *)
(***************************************************************************)
HTTPException(code, detail) == [status |-> code, detail |-> <<detail>>]

DbError(fault) == [status |-> 0, detail |-> <<fault>>]

StrOfException(e) ==
  IF e.status = 0 THEN e.detail ELSE <<ToString(e.status)>> \o e.detail

Wrap500(prefix, e) ==
  [status |-> 500, detail |-> <<prefix>> \o StrOfException(e)]

Ok200 == [status |-> 200, detail |-> <<>>]
Ok201 == [status |-> 201, detail |-> <<>>]


(***************************************************************************)
(* The database and the session.  A handler works on a session: a copy of  *)
(* the tables that it changes step by step.  Commit makes the session the  *)
(* database; rollback, and closing a session that was not committed, leave *)
(* the database as it was.                                                 *)
(***************************************************************************)
Db ==
  [tasks |-> tasks, task_history |-> task_history, articles |-> articles,
   article_history |-> article_history, article_images |-> article_images]

Commit(db, session) == session

Rollback(db, session) == db

\* get_db closes the session of a request that raised without committing
CloseUncommitted(db, session) == db

\* a handler's result: the database it leaves and its response
Result(db, out, body) ==
  [db |-> db, status |-> out.status, detail |-> out.detail, body |-> body]

\* a role check that lets every caller through
IsOwnerOrAdmin_Anyone(u, author_id) == u \in DOMAIN users

\* a role check that lets only the author through
IsOwnerOrAdmin_OwnerOnly(u, author_id) == author_id = u

\* the role check repeated in the handlers: the elevated role or the author
IsOwnerOrAdmin(u, author_id) ==
  users[u].role_id = ADMIN_ROLE_ID \/ author_id = u

SoftDelete(e, at) == [e EXCEPT !.is_deleted = TRUE, !.deleted_at = Some(at)]

\* a restore that hands the entity to nobody
Undelete_ClearsAuthor(e) == [e EXCEPT !.is_deleted = FALSE, !.deleted_at = None, !.author_id = 0]

\* a restore that clears the flag and keeps the timestamp
Undelete_KeepsDeletedAt(e) == [e EXCEPT !.is_deleted = FALSE]

Undelete(e) == [e EXCEPT !.is_deleted = FALSE, !.deleted_at = None]

\* a restore filter without the retention window
Restorable_AnyAge(e, at) == e.is_deleted

\* WHERE is_deleted == True AND deleted_at >= utcnow() - timedelta(days=7)
Restorable(e, at) ==
  e.is_deleted /\ IsSome(e.deleted_at) /\ Val(e.deleted_at) >= at - RETENTION_DAYS

\* an insert that writes over the newest row of the table
AddRow_OverwritesLast(table, row) ==
  IF table = <<>> THEN <<row>> ELSE [table EXCEPT ![Len(table)] = row]

AddRow(table, row) == Append(table, row)

(***************************************************************************)
(* Tasks.                                                                  *)
(***************************************************************************)
TaskHistory(table, task_id, user_id, event, changes, comment) ==
  [id |-> Len(table) + 1, task_id |-> task_id, user_id |-> user_id,
   event |-> event, comment |-> comment, changed_at |-> now,
   changes |-> changes]

\* the stored name keeps the extension of the upload; any extension is taken.
\* uuid4 gives each file a name of its own: the serial number of the history
\* row that records the file stands for it.
TaskFileName(file, task_id, uuid) == <<"task", task_id, uuid, file>>

\* SELECT user WHERE user_id = assignee_id AND is_deleted = False
verify_assignee(assignee_id) ==
  assignee_id \in DOMAIN users /\ ~users[assignee_id].is_deleted

RECURSIVE AddTaskImages(_, _, _, _)
\* one IMAGE_ADDED row per uploaded file, in the order of the upload
AddTaskImages(table, task_id, user_id, images) ==
  IF images = <<>> THEN table
  ELSE AddTaskImages(
         AddRow(table,
                TaskHistory(table, task_id, user_id, "IMAGE_ADDED",
                            [image_path |->
                               TaskFileName(Head(images), task_id, Len(table) + 1)],
                            None)),
         task_id, user_id, Tail(images))

TaskFileNames(images, task_id) ==
  [i \in 1..Len(images) |->
     TaskFileName(images[i], task_id, Len(task_history) + i)]

NextTaskId == Cardinality(DOMAIN tasks) + 1

\* a write that removes the row of a task flagged as deleted
PutTask_DropsDeleted(table, id, t) ==
  IF t.is_deleted
  THEN [i \in DOMAIN table \ {id} |-> table[i]]
  ELSE [i \in DOMAIN table \cup {id} |-> IF i = id THEN t ELSE table[i]]

PutTask(table, id, t) == [i \in DOMAIN table \cup {id} |-> IF i = id THEN t ELSE table[i]]

CreateTaskResult(u, title, description, assignee_id, images, fault) ==
  LET prefix == "create_task_error"
      id == NextTaskId
      task_data ==
        [title |-> title, description |-> description,
         assignee_id |-> assignee_id, author_id |-> u, status |-> "ACTIVE",
         image_paths |-> <<>>]
      task0 == [title |-> title, description |-> description,
                assignee_id |-> assignee_id, author_id |-> u,
                status |-> "ACTIVE", image_paths |-> <<>>,
                is_deleted |-> FALSE, deleted_at |-> None]
      task == IF images # <<>>
              THEN [task0 EXCEPT !.image_paths = TaskFileNames(images, id)]
              ELSE task0
      th1 == AddTaskImages(task_history, id, u, images)
      th2 == AddRow(th1, TaskHistory(th1, id, u, "TASK_CREATED", task_data, None))
      session == [Db EXCEPT !.tasks = PutTask(tasks, id, task),
                            !.task_history = th2]
  IN  IF ~verify_assignee(assignee_id)
      THEN Result(Rollback(Db, Db),
                  Wrap500(prefix, HTTPException(404, "assignee_not_found")), <<>>)
      ELSE IF fault # "none"
      THEN Result(Rollback(Db, session), Wrap500(prefix, DbError(fault)), <<>>)
      ELSE Result(Commit(Db, session), Ok201, <<>>)

\* the form fields of PUT /tasks/{task_id}: each is optional
TaskUpdateKeys(req) ==
  {k \in {"title", "description", "assignee_id", "status"} : IsSome(req[k])}
  \cup (IF req.images # <<>> THEN {"image_paths"} ELSE {})

\* image_paths is a plain JSON column: the session writes it only when the
\* attribute is given another list than the one loaded.  The handler appends
\* to the loaded list when that list is not empty, and to a fresh list when
\* it is empty; only the fresh list reaches the database.
PersistedImagePaths(loaded, appended) ==
  IF loaded = <<>> THEN appended ELSE loaded

UpdateTaskResult(u, id, req, fault) ==
  IF id \notin DOMAIN tasks
  THEN Result(Db, HTTPException(404, "task_not_found"), <<>>)
  ELSE
  LET task == tasks[id]
      t1 == IF IsSome(req.title) THEN [task EXCEPT !.title = Val(req.title)] ELSE task
      t2 == IF IsSome(req.description)
            THEN [t1 EXCEPT !.description = req.description] ELSE t1
      t3 == IF IsSome(req.assignee_id)
            THEN [t2 EXCEPT !.assignee_id = Val(req.assignee_id)] ELSE t2
      t4 == IF IsSome(req.status) THEN [t3 EXCEPT !.status = Val(req.status)] ELSE t3
      image_paths == task.image_paths \o TaskFileNames(req.images, id)
      t5 == IF req.images # <<>>
            THEN [t4 EXCEPT !.image_paths =
                              PersistedImagePaths(task.image_paths, image_paths)]
            ELSE t4
      th1 == AddTaskImages(task_history, id, u, req.images)
      changes ==
        [k \in TaskUpdateKeys(req) |->
           CASE k = "title" -> Val(req.title)
             [] k = "description" -> req.description
             [] k = "assignee_id" -> Val(req.assignee_id)
             [] k = "status" -> Val(req.status)
             [] k = "image_paths" -> image_paths]
      th2 == IF TaskUpdateKeys(req) # {}
             THEN AddRow(th1, TaskHistory(th1, id, u, "TASK_UPDATED", changes, None))
             ELSE th1
      session == [Db EXCEPT !.tasks = PutTask(tasks, id, t5), !.task_history = th2]
  IN  IF IsSome(req.assignee_id) /\ ~verify_assignee(Val(req.assignee_id))
      THEN Result(CloseUncommitted(Db, session),
                  HTTPException(404, "assignee_not_found"), <<>>)
      ELSE IF fault # "none"
      THEN Result(CloseUncommitted(Db, session),
                  [status |-> 500, detail |-> <<"Internal Server Error">>], <<>>)
      ELSE Result(Commit(Db, session), Ok200, <<>>)

DeleteTaskResult(u, id, fault) ==
  LET prefix == "delete_task_error" IN
  IF ~(id \in DOMAIN tasks /\ ~tasks[id].is_deleted)
  THEN Result(Rollback(Db, Db), Wrap500(prefix, HTTPException(404, "task_not_found")), <<>>)
  ELSE IF ~IsOwnerOrAdmin(u, tasks[id].author_id)
  THEN Result(Rollback(Db, Db), Wrap500(prefix, HTTPException(403, "forbidden")), <<>>)
  ELSE
  LET task == SoftDelete(tasks[id], now)
      row == TaskHistory(task_history, id, u, "TASK_DELETED",
                         [title |-> task.title, description |-> task.description],
                         None)
      session == [Db EXCEPT !.tasks = PutTask(tasks, id, task),
                            !.task_history = AddRow(task_history, row)]
  IN  IF fault # "none"
      THEN Result(Rollback(Db, session), Wrap500(prefix, DbError(fault)), <<>>)
      ELSE Result(Commit(Db, session), Ok200, <<>>)

\* a restore that tells an expired window from a missing task
RestoreTaskResult_TellsExpired(u, id, fault) ==
  LET prefix == "restore_task_error" IN
  IF ~(id \in DOMAIN tasks /\ tasks[id].is_deleted)
  THEN Result(Rollback(Db, Db),
              Wrap500(prefix, HTTPException(404, "task_not_found_or_expired")), <<>>)
  ELSE IF ~Restorable(tasks[id], now)
  THEN Result(Rollback(Db, Db), Wrap500(prefix, HTTPException(410, "expired")), <<>>)
  ELSE IF ~IsOwnerOrAdmin(u, tasks[id].author_id)
  THEN Result(Rollback(Db, Db), Wrap500(prefix, HTTPException(403, "forbidden")), <<>>)
  ELSE
  LET task == Undelete(tasks[id])
      row == TaskHistory(task_history, id, u, "TASK_RESTORED",
                         [title |-> task.title, description |-> task.description],
                         None)
      session == [Db EXCEPT !.tasks = PutTask(tasks, id, task),
                            !.task_history = AddRow(task_history, row)]
  IN  IF fault # "none"
      THEN Result(Rollback(Db, session), Wrap500(prefix, DbError(fault)), <<>>)
      ELSE Result(Commit(Db, session), Ok200, <<>>)

RestoreTaskResult(u, id, fault) ==
  LET prefix == "restore_task_error" IN
  IF ~(id \in DOMAIN tasks /\ Restorable(tasks[id], now))
  THEN Result(Rollback(Db, Db),
              Wrap500(prefix, HTTPException(404, "task_not_found_or_expired")), <<>>)
  ELSE IF ~IsOwnerOrAdmin(u, tasks[id].author_id)
  THEN Result(Rollback(Db, Db), Wrap500(prefix, HTTPException(403, "forbidden")), <<>>)
  ELSE
  LET task == Undelete(tasks[id])
      row == TaskHistory(task_history, id, u, "TASK_RESTORED",
                         [title |-> task.title, description |-> task.description],
                         None)
      session == [Db EXCEPT !.tasks = PutTask(tasks, id, task),
                            !.task_history = AddRow(task_history, row)]
  IN  IF fault # "none"
      THEN Result(Rollback(Db, session), Wrap500(prefix, DbError(fault)), <<>>)
      ELSE Result(Commit(Db, session), Ok200, <<>>)

ReassignTaskResult(u, id, new_assignee_id, comment, fault) ==
  IF ~(id \in DOMAIN tasks /\ ~tasks[id].is_deleted)
  THEN Result(Db, HTTPException(404, "task_not_found"), <<>>)
  ELSE IF ~IsOwnerOrAdmin(u, tasks[id].author_id)
  THEN Result(Db, HTTPException(403, "forbidden"), <<>>)
  ELSE IF ~verify_assignee(new_assignee_id)
  THEN Result(Db, HTTPException(404, "assignee_not_found"), <<>>)
  ELSE
  LET task == tasks[id]
      changes == [assignee_id |-> [old |-> task.assignee_id, new |-> new_assignee_id]]
      row == TaskHistory(task_history, id, u, "TASK_REASSIGNED", changes, comment)
      session == [Db EXCEPT !.tasks = PutTask(tasks, id,
                                        [task EXCEPT !.assignee_id = new_assignee_id]),
                            !.task_history = AddRow(task_history, row)]
  IN  IF fault # "none"
      THEN Result(CloseUncommitted(Db, session),
                  [status |-> 500, detail |-> <<"Internal Server Error">>], <<>>)
      ELSE Result(Commit(Db, session), Ok200, <<>>)

(***************************************************************************)
(* The history queries: ORDER BY changed_at DESC OFFSET offset LIMIT limit.*)
(* The order of rows with equal changed_at is not fixed by the query: the  *)
(* result is any arrangement of the rows that is sorted by changed_at.     *)
(***************************************************************************)
RECURSIVE OrderByChangedAtDesc(_)
OrderByChangedAtDesc(rows) ==
  IF rows = {} THEN {<<>>}
  ELSE UNION {{<<r>> \o s : s \in OrderByChangedAtDesc(rows \ {r})} :
                r \in {x \in rows : \A y \in rows : x.changed_at >= y.changed_at}}

Page(s, offset, limit) == SubSeq(s, offset + 1, Min(Len(s), offset + limit))

RowsOf(table, key, id) == {table[i] : i \in {j \in 1..Len(table) : table[j][key] = id}}

\* the results GET /tasks/{task_id}/history may give
TaskHistoryResults(u, id, offset, limit) ==
  LET prefix == "task_history_error" IN
  IF id \notin DOMAIN tasks
  THEN {Result(Db, Wrap500(prefix, HTTPException(404, "task_not_found")), <<>>)}
  ELSE IF ~IsOwnerOrAdmin(u, tasks[id].author_id)
  THEN {Result(Db, Wrap500(prefix, HTTPException(403, "forbidden")), <<>>)}
  ELSE {Result(Db, Ok200, Page(s, offset, limit)) :
          s \in OrderByChangedAtDesc(RowsOf(task_history, "task_id", id))}


(***************************************************************************)
(* Articles.                                                               *)
(***************************************************************************)
ArticleHistory(table, article_id, user_id, event, old_title, new_title, old_content, new_content) ==
  [id |-> Len(table) + 1, article_id |-> article_id, user_id |-> user_id,
   event |-> event, changed_at |-> now, old_title |-> old_title,
   new_title |-> new_title, old_content |-> old_content,
   new_content |-> new_content]

AllowedExtensions == {".png", ".jpg", ".jpeg", ".gif", ".webp"}

\* save_uploaded_file of the articles refuses the other extensions
ArticleFilesAllowed(images) ==
  \A i \in 1..Len(images) : images[i] \in AllowedExtensions

\* token_hex gives each file a name of its own: the serial number of the
\* article_images row stands for it
ArticleFileName(file, token) == <<"article", token, file>>

RECURSIVE AddArticleImages(_, _, _)
\* one article_images row per uploaded file
AddArticleImages(table, article_id, images) ==
  IF images = <<>> THEN table
  ELSE AddArticleImages(
         AddRow(table, [id |-> Len(table) + 1, article_id |-> article_id,
                        image_path |->
                          ArticleFileName(Head(images), Len(table) + 1)]),
         article_id, Tail(images))

NextArticleId == Cardinality(DOMAIN articles) + 1

\* article.author_id != current_user.user_id and current_user.role_id != 2
ArticleForbidden(u, author_id) == author_id # u /\ users[u].role_id # 2

PutArticle(table, id, a) ==
  [i \in DOMAIN table \cup {id} |-> IF i = id THEN a ELSE table[i]]

CreateArticleResult(u, title, content, images, fault) ==
  LET prefix == "create_article_error"
      id == NextArticleId
      article == [title |-> title, content |-> content, author_id |-> u,
                  is_deleted |-> FALSE, deleted_at |-> None]
      row == ArticleHistory(article_history, id, u, "CREATE",
                            None, Some(title), None, Some(content))
      session == [Db EXCEPT !.articles = PutArticle(articles, id, article),
                            !.article_images =
                               AddArticleImages(article_images, id, images),
                            !.article_history = AddRow(article_history, row)]
  IN  IF ~ArticleFilesAllowed(images)
      THEN Result(Rollback(Db, session),
                  Wrap500(prefix, HTTPException(400, "unsupported_file_format")), <<>>)
      ELSE IF fault # "none"
      THEN Result(Rollback(Db, session), Wrap500(prefix, DbError(fault)), <<>>)
      ELSE Result(Commit(Db, session), Ok201, <<>>)

UpdateArticleResult(u, id, req, fault) ==
  LET prefix == "update_article_error" IN
  IF ~(id \in DOMAIN articles /\ ~articles[id].is_deleted)
  THEN Result(Rollback(Db, Db),
              Wrap500(prefix, HTTPException(404, "article_not_found")), <<>>)
  ELSE IF ArticleForbidden(u, articles[id].author_id)
  THEN Result(Rollback(Db, Db), Wrap500(prefix, HTTPException(403, "forbidden")), <<>>)
  ELSE
  LET article == articles[id]
      old_title == article.title
      old_content == article.content
      title_changed == IsSome(req.title) /\ Val(req.title) # old_title
      content_changed == IsSome(req.content) /\ Val(req.content) # old_content
      a1 == IF title_changed THEN [article EXCEPT !.title = Val(req.title)]
            ELSE article
      a2 == IF content_changed THEN [a1 EXCEPT !.content = Val(req.content)]
            ELSE a1
      changes_made == title_changed \/ content_changed \/ req.images # <<>>
      row == ArticleHistory(article_history, id, u, "UPDATE",
               IF title_changed THEN Some(old_title) ELSE None,
               IF title_changed THEN req.title ELSE None,
               IF content_changed THEN Some(old_content) ELSE None,
               IF content_changed THEN req.content ELSE None)
      session == [Db EXCEPT !.articles = PutArticle(articles, id, a2),
                            !.article_images =
                               AddArticleImages(article_images, id, req.images),
                            !.article_history =
                               IF changes_made THEN AddRow(article_history, row)
                               ELSE article_history]
  IN  IF ~ArticleFilesAllowed(req.images)
      THEN Result(Rollback(Db, session),
                  Wrap500(prefix, HTTPException(400, "unsupported_file_format")), <<>>)
      ELSE IF fault # "none"
      THEN Result(Rollback(Db, session), Wrap500(prefix, DbError(fault)), <<>>)
      ELSE Result(Commit(Db, session), Ok200, <<>>)

DeleteArticleResult(u, id, fault) ==
  LET prefix == "delete_article_error" IN
  IF ~(id \in DOMAIN articles /\ ~articles[id].is_deleted)
  THEN Result(Rollback(Db, Db),
              Wrap500(prefix, HTTPException(404, "article_not_found")), <<>>)
  ELSE IF ArticleForbidden(u, articles[id].author_id)
  THEN Result(Rollback(Db, Db), Wrap500(prefix, HTTPException(403, "forbidden")), <<>>)
  ELSE
  LET article == SoftDelete(articles[id], now)
      row == ArticleHistory(article_history, id, u, "DELETE",
                            Some(article.title), None, Some(article.content), None)
      session == [Db EXCEPT !.articles = PutArticle(articles, id, article),
                            !.article_history = AddRow(article_history, row)]
  IN  IF fault # "none"
      THEN Result(Rollback(Db, session), Wrap500(prefix, DbError(fault)), <<>>)
      ELSE Result(Commit(Db, session), Ok200, <<>>)

RestoreArticleResult(u, id, fault) ==
  LET prefix == "restore_article_error" IN
  IF ~(id \in DOMAIN articles /\ Restorable(articles[id], now))
  THEN Result(Rollback(Db, Db),
              Wrap500(prefix, HTTPException(404, "article_not_found_or_expired")),
              <<>>)
  ELSE IF ArticleForbidden(u, articles[id].author_id)
  THEN Result(Rollback(Db, Db), Wrap500(prefix, HTTPException(403, "forbidden")), <<>>)
  ELSE
  LET article == Undelete(articles[id])
      row == ArticleHistory(article_history, id, u, "RESTORE",
                            None, Some(article.title), None, Some(article.content))
      session == [Db EXCEPT !.articles = PutArticle(articles, id, article),
                            !.article_history = AddRow(article_history, row)]
  IN  IF fault # "none"
      THEN Result(Rollback(Db, session), Wrap500(prefix, DbError(fault)), <<>>)
      ELSE Result(Commit(Db, session), Ok200, <<>>)

\* the results GET /articles/{article_id}/history may give
ArticleHistoryResults(u, id, offset, limit) ==
  LET prefix == "article_history_error" IN
  IF id \notin DOMAIN articles
  THEN {Result(Db, Wrap500(prefix, HTTPException(404, "article_not_found")), <<>>)}
  ELSE IF ArticleForbidden(u, articles[id].author_id)
  THEN {Result(Db, Wrap500(prefix, HTTPException(403, "forbidden")), <<>>)}
  ELSE {Result(Db, Ok200, Page(s, offset, limit)) :
          s \in OrderByChangedAtDesc(RowsOf(article_history, "article_id", id))}


(***************************************************************************)
(* The list queries.  due_date and priority are not part of the model, and  *)
(* get_articles has no ORDER BY: the rows come in any order.                *)
(***************************************************************************)
\* a list filter that lets soft-deleted rows through
NotDeleted_Everything(e) == e = e

\* WHERE is_deleted == False
NotDeleted(e) == ~e.is_deleted

RECURSIVE AnyOrder(_)
AnyOrder(rows) ==
  IF rows = {} THEN {<<>>}
  ELSE UNION {{<<r>> \o s : s \in AnyOrder(rows \ {r})} : r \in rows}

\* the rows of an entity table that pass a filter, each with its id
Listed(table, ids) == {[id |-> i, entity |-> table[i]] : i \in ids}

\* title ILIKE %pattern%; the titles of the model are one lower-case letter,
\* which contains a pattern of one letter exactly when it is that letter
ILike(title, pattern) == title = pattern

\* the results GET /tasks/my may give
MyTasksResults(u, status_filter) ==
  LET ids == {i \in DOMAIN tasks :
                /\ NotDeleted(tasks[i])
                /\ tasks[i].author_id = u \/ tasks[i].assignee_id = u
                /\ IsSome(status_filter) => tasks[i].status = Val(status_filter)}
  IN  {Result(Db, Ok200, s) : s \in AnyOrder(Listed(tasks, ids))}

\* the results GET /tasks/shift may give
ShiftTasksResults(u, shift) ==
  LET ids == {i \in DOMAIN tasks :
                /\ tasks[i].assignee_id \in DOMAIN users
                /\ NotDeleted(tasks[i])
                /\ users[tasks[i].assignee_id].shift = shift
                /\ tasks[i].status # "COMPLETED"}
  IN  IF users[u].shift = ""
      THEN {Result(Db, HTTPException(400, "shift_undefined"), <<>>)}
      ELSE {Result(Db, Ok200, s) : s \in AnyOrder(Listed(tasks, ids))}

\* the results GET /articles may give
ArticlesResults(title, author_id, offset, limit) ==
  LET ids == {i \in DOMAIN articles :
                /\ NotDeleted(articles[i])
                /\ IsSome(title) => ILike(articles[i].title, Val(title))
                /\ IsSome(author_id) => articles[i].author_id = Val(author_id)}
  IN  {Result(Db, Ok200, Page(s, offset, limit)) :
         s \in AnyOrder(Listed(articles, ids))}

(***************************************************************************)
(* The requests the model issues.                                          *)
(***************************************************************************)
TaskCreateInputs ==
  [title : {"a"}, description : {None}, assignee_id : {2, 9},
   images : {<<>>, <<".png">>}]

NoTaskUpdate ==
  [title |-> None, description |-> None, assignee_id |-> None,
   status |-> None, images |-> <<>>]

TaskUpdateInputs ==
  {NoTaskUpdate,
   [NoTaskUpdate EXCEPT !.title = Some("a")],
   [NoTaskUpdate EXCEPT !.title = Some("b")],
   [NoTaskUpdate EXCEPT !.title = Some("b"), !.description = Some("d")],
   [NoTaskUpdate EXCEPT !.title = Some("b"), !.assignee_id = Some(4)],
   [NoTaskUpdate EXCEPT !.images = <<".png">>],
   [NoTaskUpdate EXCEPT !.images = <<".exe">>]}

\* the update requests issued next to every other kind of request
TaskUpdateSample ==
  {[NoTaskUpdate EXCEPT !.title = Some("b")],
   [NoTaskUpdate EXCEPT !.images = <<".png">>]}

ReassignInputs == {1, 4}

ArticleCreateInputs ==
  [title : {"a"}, content : {"c"}, images : {<<>>, <<".png">>, <<".exe">>}]

NoArticleUpdate == [title |-> None, content |-> None, images |-> <<>>]

ArticleUpdateInputs ==
  {NoArticleUpdate,
   [NoArticleUpdate EXCEPT !.title = Some("a")],
   [NoArticleUpdate EXCEPT !.title = Some("b")],
   [NoArticleUpdate EXCEPT !.title = Some("b"), !.content = Some("e")],
   [NoArticleUpdate EXCEPT !.title = Some("a"), !.content = Some("e")],
   [NoArticleUpdate EXCEPT !.images = <<".png">>],
   [NoArticleUpdate EXCEPT !.title = Some("b"), !.images = <<".exe">>]}

\* the update requests issued next to every other kind of request
ArticleUpdateSample ==
  {[NoArticleUpdate EXCEPT !.title = Some("b")],
   [NoArticleUpdate EXCEPT !.title = Some("b"), !.images = <<".exe">>]}

\* the ids the requests name; the model creates the entities with these ids
TaskIdInputs == {1}
ArticleIdInputs == {1}
StatusFilters == {None, Some("ACTIVE")}
Shifts == {"day", "night"}
TitleFilters == {None, Some("a")}
AuthorFilters == {None, Some(2)}
Offsets == {0, 1}
Limits == {1, 2}

(***************************************************************************)
(* The actions: one per handler, the delivery of the response to the       *)
(* caller, and the clock.  A request is issued when the response to the    *)
(* one before has been delivered: the handlers run one at a time.          *)
(***************************************************************************)
NoResp ==
  [op |-> "none", id |-> 0, status |-> 0, detail |-> <<>>, body |-> <<>>]

Respond(op, u, id, r) ==
  /\ resp = NoResp
  /\ tasks' = r.db.tasks
  /\ task_history' = r.db.task_history
  /\ articles' = r.db.articles
  /\ article_history' = r.db.article_history
  /\ article_images' = r.db.article_images
  /\ resp' = [op |-> op, id |-> id, status |-> r.status,
              detail |-> r.detail, body |-> r.body]
  /\ UNCHANGED <<users, now, inflight>>

create_task(u, inp, fault) ==
  /\ NextTaskId \in TaskIdInputs
  /\ Respond("create_task", u, NextTaskId,
             CreateTaskResult(u, inp.title, inp.description, inp.assignee_id,
                              inp.images, fault))

update_task(u, id, req, fault) ==
  Respond("update_task", u, id, UpdateTaskResult(u, id, req, fault))

delete_task(u, id, fault) ==
  Respond("delete_task", u, id, DeleteTaskResult(u, id, fault))

restore_task(u, id, fault) ==
  Respond("restore_task", u, id, RestoreTaskResult(u, id, fault))

\* a reassign carried out as an update of the assignee field
reassign_task_AsUpdate(u, id, new_assignee_id, comment, fault) ==
  Respond("reassign_task", u, id,
          UpdateTaskResult(u, id, [NoTaskUpdate EXCEPT !.assignee_id = Some(new_assignee_id)], fault))

reassign_task(u, id, new_assignee_id, comment, fault) ==
  Respond("reassign_task", u, id,
          ReassignTaskResult(u, id, new_assignee_id, comment, fault))

get_task_history(u, id, offset, limit) ==
  /\ resp = NoResp
  /\ \E r \in TaskHistoryResults(u, id, offset, limit) :
       Respond("get_task_history", u, id, r)

create_article(u, inp, fault) ==
  /\ NextArticleId \in ArticleIdInputs
  /\ Respond("create_article", u, NextArticleId,
             CreateArticleResult(u, inp.title, inp.content, inp.images, fault))

update_article(u, id, req, fault) ==
  Respond("update_article", u, id, UpdateArticleResult(u, id, req, fault))

delete_article(u, id, fault) ==
  Respond("delete_article", u, id, DeleteArticleResult(u, id, fault))

restore_article(u, id, fault) ==
  Respond("restore_article", u, id, RestoreArticleResult(u, id, fault))

get_article_history(u, id, offset, limit) ==
  /\ resp = NoResp
  /\ \E r \in ArticleHistoryResults(u, id, offset, limit) :
       Respond("get_article_history", u, id, r)

get_my_tasks(u, status_filter) ==
  /\ resp = NoResp
  /\ \E r \in MyTasksResults(u, status_filter) : Respond("get_my_tasks", u, 0, r)

get_shift_tasks(u, shift) ==
  /\ resp = NoResp
  /\ \E r \in ShiftTasksResults(u, shift) : Respond("get_shift_tasks", u, 0, r)

get_articles(u, title, author_id, offset, limit) ==
  /\ resp = NoResp
  /\ \E r \in ArticlesResults(title, author_id, offset, limit) :
       Respond("get_articles", u, 0, r)

\* the caller receives the response
Deliver ==
  /\ resp # NoResp
  /\ resp' = NoResp
  /\ UNCHANGED <<users, tasks, task_history, articles, article_history,
                 article_images, now, inflight>>

\* time passes between two requests
Tick(instants) ==
  /\ resp = NoResp
  /\ \E t \in instants : t > now /\ now' = t
  /\ UNCHANGED <<users, tasks, task_history, articles, article_history,
                 article_images, resp, inflight>>

RowCount == Len(task_history) + Len(article_history)

(***************************************************************************)
(* Overlapping requests.  Each request has a session of its own; a handler  *)
(* awaits its SELECT and later its commit, and another request may run in   *)
(* between.  A slot holds a delete or restore request between the two: the  *)
(* caller, the entity id and the row its SELECT returned.  The isolation    *)
(* level of the database is not set by the handlers: under READ COMMITTED   *)
(* the UPDATE of the flush applies to the row as it is now, under a         *)
(* stricter level the transaction fails when the row changed since it was   *)
(* read.                                                                    *)
(***************************************************************************)
Slots == {1, 2}
Isolations == {"read_committed", "serializable"}
TaskOps == {"delete_task", "restore_task"}
ArticleOps == {"delete_article", "restore_article"}

Idle == [op |-> "none", u |-> 0, id |-> 0, seen |-> None, req |-> None, status |-> 0]

StoreOf(op) == IF op \in TaskOps THEN tasks ELSE articles

\* the row the handler's SELECT returns, if any
Selected(op, id) ==
  LET store == StoreOf(op) IN
  IF id \notin DOMAIN store THEN None
  ELSE IF op \in {"delete_task", "delete_article"}
  THEN (IF ~store[id].is_deleted THEN Some(store[id]) ELSE None)
  ELSE (IF Restorable(store[id], now) THEN Some(store[id]) ELSE None)

\* the handler runs up to the result of its SELECT
select(p, op, u, id) ==
  /\ resp = NoResp
  /\ inflight[p] = Idle
  /\ inflight' = [inflight EXCEPT ![p] = [op |-> op, u |-> u, id |-> id,
                                          seen |-> Selected(op, id),
                                          req |-> None, status |-> 0]]
  /\ UNCHANGED <<users, tasks, task_history, articles, article_history,
                 article_images, now, resp>>

\* the role check of the handler on the row it read
Refused(op, u, row) ==
  IF op \in TaskOps THEN ~IsOwnerOrAdmin(u, row.author_id)
  ELSE ArticleForbidden(u, row.author_id)

\* the columns the handler assigns, written to the row as it is now
Written(op, current) ==
  IF op \in {"delete_task", "delete_article"} THEN SoftDelete(current, now)
  ELSE Undelete(current)

\* the history row the handler adds, filled from the row it read
HistoryRow(op, u, id, row) ==
  CASE op = "delete_task" ->
         TaskHistory(task_history, id, u, "TASK_DELETED",
                     [title |-> row.title, description |-> row.description], None)
    [] op = "restore_task" ->
         TaskHistory(task_history, id, u, "TASK_RESTORED",
                     [title |-> row.title, description |-> row.description], None)
    [] op = "delete_article" ->
         ArticleHistory(article_history, id, u, "DELETE",
                        Some(row.title), None, Some(row.content), None)
    [] op = "restore_article" ->
         ArticleHistory(article_history, id, u, "RESTORE",
                        None, Some(row.title), None, Some(row.content))

\* the handler runs from the result of its SELECT to its response
commit(p, op, iso) ==
  LET t == inflight[p]
      done(code) == inflight' = [inflight EXCEPT ![p].status = code]
      keep == UNCHANGED <<tasks, task_history, articles, article_history>>
  IN
  /\ t.op = op
  /\ t.status = 0
  /\ IF ~IsSome(t.seen) \/ Refused(op, t.u, Val(t.seen))
     THEN done(500) /\ keep
     ELSE IF iso = "serializable" /\ StoreOf(op)[t.id] # Val(t.seen)
     THEN done(500) /\ keep
     ELSE /\ done(200)
          /\ IF op \in TaskOps
             THEN /\ tasks' = PutTask(tasks, t.id, Written(op, tasks[t.id]))
                  /\ task_history' =
                       AddRow(task_history, HistoryRow(op, t.u, t.id, Val(t.seen)))
                  /\ UNCHANGED <<articles, article_history>>
             ELSE /\ articles' = PutArticle(articles, t.id, Written(op, articles[t.id]))
                  /\ article_history' =
                       AddRow(article_history, HistoryRow(op, t.u, t.id, Val(t.seen)))
                  /\ UNCHANGED <<tasks, task_history>>
  /\ RowCount' <= MaxConcRecords
  /\ UNCHANGED <<users, article_images, now, resp>>

\* the caller receives the response of an overlapping request
deliver(p) ==
  /\ inflight[p].status # 0
  /\ inflight' = [inflight EXCEPT ![p] = Idle]
  /\ UNCHANGED <<users, tasks, task_history, articles, article_history,
                 article_images, now, resp>>

(***************************************************************************)
(* Overlapping update_article and reassign_task requests, and the admin's  *)
(* delete_user.  The slot of an update holds the form fields next to the   *)
(* row read; the slot of a reassign holds the requested assignee, the      *)
(* comment and what verify_assignee found when it ran.                     *)
(***************************************************************************)
\* the callers of the overlapping requests: the author and the admin
RaceActors == {1, 3}
\* the slot of the reassign request that overlaps with delete_user
AssignSlots == {1}

\* the update requests two callers issue at the same time
ArticleRaceInputs ==
  {[NoArticleUpdate EXCEPT !.title = Some("b")],
   [NoArticleUpdate EXCEPT !.title = Some("c")]}

\* the reassign requests issued while a user is being deleted
ReassignRaceInputs ==
  {[new_assignee_id |-> a, comment |-> c, verified |-> verify_assignee(a)] :
     a \in {1, 2}, c \in Comments}

\* SELECT ... WHERE id = :id AND is_deleted = False
SelectedForEdit(op, id) ==
  LET store == IF op = "reassign_task" THEN tasks ELSE articles IN
  IF id \in DOMAIN store /\ ~store[id].is_deleted THEN Some(store[id]) ELSE None

\* the handler runs up to its last read before the commit: update_article to
\* the result of its SELECT, reassign_task to the result of verify_assignee
select_edit(p, op, u, id, req) ==
  /\ resp = NoResp
  /\ inflight[p] = Idle
  /\ inflight' = [inflight EXCEPT ![p] = [op |-> op, u |-> u, id |-> id,
                                          seen |-> SelectedForEdit(op, id),
                                          req |-> Some(req), status |-> 0]]
  /\ UNCHANGED <<users, tasks, task_history, articles, article_history,
                 article_images, now, resp>>

\* update_article from the row it read to its response
commit_update_article(p, iso) ==
  LET t == inflight[p]
      req == Val(t.req)
      seen == Val(t.seen)
      title_changed == IsSome(req.title) /\ Val(req.title) # seen.title
      content_changed == IsSome(req.content) /\ Val(req.content) # seen.content
      changes_made == title_changed \/ content_changed \/ req.images # <<>>
      current == articles[t.id]
      a1 == IF title_changed THEN [current EXCEPT !.title = Val(req.title)] ELSE current
      a2 == IF content_changed THEN [a1 EXCEPT !.content = Val(req.content)] ELSE a1
      row == ArticleHistory(article_history, t.id, t.u, "UPDATE",
               IF title_changed THEN Some(seen.title) ELSE None,
               IF title_changed THEN req.title ELSE None,
               IF content_changed THEN Some(seen.content) ELSE None,
               IF content_changed THEN req.content ELSE None)
      done(code) == inflight' = [inflight EXCEPT ![p].status = code]
      keep == UNCHANGED <<articles, article_history, article_images>>
  IN
  /\ t.op = "update_article"
  /\ t.status = 0
  /\ IF ~IsSome(t.seen) THEN done(500) /\ keep
     ELSE IF ArticleForbidden(t.u, seen.author_id) \/ ~ArticleFilesAllowed(req.images)
     THEN done(500) /\ keep
     ELSE IF iso = "serializable" /\ (title_changed \/ content_changed) /\ current # seen
     THEN done(500) /\ keep
     ELSE /\ done(200)
          /\ articles' = PutArticle(articles, t.id, a2)
          /\ article_images' = AddArticleImages(article_images, t.id, req.images)
          /\ article_history' =
               IF changes_made THEN AddRow(article_history, row) ELSE article_history
  /\ UNCHANGED <<users, tasks, task_history, now, resp>>
  /\ RowCount' <= MaxRaceRecords

\* reassign_task from the result of verify_assignee to its response
commit_reassign_task(p, iso) ==
  LET t == inflight[p]
      req == Val(t.req)
      seen == Val(t.seen)
      current == tasks[t.id]
      changes == [assignee_id |-> [old |-> seen.assignee_id, new |-> req.new_assignee_id]]
      row == TaskHistory(task_history, t.id, t.u, "TASK_REASSIGNED", changes, req.comment)
      done(code) == inflight' = [inflight EXCEPT ![p].status = code]
      keep == UNCHANGED <<tasks, task_history>>
  IN
  /\ t.op = "reassign_task"
  /\ t.status = 0
  /\ IF ~IsSome(t.seen) THEN done(404) /\ keep
     ELSE IF ~IsOwnerOrAdmin(t.u, seen.author_id) THEN done(403) /\ keep
     ELSE IF ~req.verified THEN done(404) /\ keep
     ELSE IF iso = "serializable" /\ current # seen THEN done(500) /\ keep
     ELSE /\ done(200)
          /\ tasks' = PutTask(tasks, t.id,
                              [current EXCEPT !.assignee_id = req.new_assignee_id])
          /\ task_history' = AddRow(task_history, row)
  /\ UNCHANGED <<users, articles, article_history, article_images, now, resp>>
  /\ RowCount' <= MaxAssignRecords

\* the users an admin deletes
UserIdInputs == {2}

\* DELETE /admin/users/{user_id}: the user is flagged as deleted
delete_user(u, user_id) ==
  /\ resp = NoResp
  /\ IF users[u].role_id # 2
     THEN /\ resp' = [NoResp EXCEPT !.op = "delete_user", !.id = user_id, !.status = 403]
          /\ UNCHANGED users
     ELSE IF ~(user_id \in DOMAIN users /\ ~users[user_id].is_deleted)
     THEN /\ resp' = [NoResp EXCEPT !.op = "delete_user", !.id = user_id, !.status = 404]
          /\ UNCHANGED users
     ELSE /\ resp' = [NoResp EXCEPT !.op = "delete_user", !.id = user_id, !.status = 200]
          /\ users' = [users EXCEPT ![user_id].is_deleted = TRUE,
                                    ![user_id].deleted_at = Some(now)]
  /\ UNCHANGED <<tasks, task_history, articles, article_history, article_images,
                 now, inflight>>

(***************************************************************************)
(* User accounts.  A request carries a token whose subject is a username;  *)
(* get_current_user looks the user up by it.  register, update_profile and *)
(* admin_update_user await their SELECTs and later their commit, so a slot *)
(* holds such a request between the two.  The columns username and email   *)
(* are declared unique: the database refuses a flush that would leave two  *)
(* rows with the same value.  full_name and avatar_url are left out.       *)
(***************************************************************************)
\* users in the table, the registered ones included
MaxUsers == 5

\* the subjects of the tokens presented: the first usernames of users 1
\* and 3 and a username nobody holds at the start
Subs == {"ann", "cat", "eve"}
\* the bodies of register: a free username and email, and a taken username
RegisterInputs ==
  { [username |-> Some("eve"), email |-> Some("eve@x"), shift |-> Some("day")],
    [username |-> Some("bob"), email |-> Some("eve@x"), shift |-> Some("day")] }
\* the forms of update_profile and admin_update_user
ProfileInputs ==
  { [username |-> Some("eve"), email |-> None, shift |-> Some("day")],
    [username |-> None, email |-> Some("eve@x"), shift |-> None] }
\* the users an admin updates
TargetInputs == {2, 9}
\* the tokens of the callers of an overlapping reassign_task, users 1 and 3,
\* and of the callers of delete_user, users 1, 2 and 3
AssignSubs == {"ann", "cat"}
ActorSubs == {"ann", "bob", "cat"}
\* the users deleted while tasks are reassigned: the author of the tasks
\* and an assignee
DeletedInputs == {1, 2}
NewPasswords == {"pw2"}

\* the bcrypt hash of a password, the salt left out
hash_password(password) == <<"bcrypt", password>>

\* a lookup that leaves out the soft-deleted users
get_current_user_ActiveOnly(sub) ==
  LET found == {id \in DOMAIN users : users[id].username = sub /\ ~users[id].is_deleted}
  IN  IF Cardinality(found) = 1 THEN Some(CHOOSE id \in found : TRUE) ELSE None

\* the row get_current_user returns for the subject of a token, if it
\* returns one: no row gives 401, more than one row an exception
get_current_user(sub) ==
  LET found == {id \in DOMAIN users : users[id].username = sub}
  IN  IF Cardinality(found) = 1 THEN Some(CHOOSE id \in found : TRUE) ELSE None

\* the rows a SELECT on a column returns, the row of except_id left out
RowsWith(column, value, except_id) ==
  {id \in DOMAIN users \ {except_id} : users[id][column] = value}

\* unique=True on username and on email: a table that breaks it is refused
Unique_NotDeclared(table) == TRUE

Unique(table) ==
  \A i, j \in DOMAIN table :
    i # j => /\ table[i].username # table[j].username
             /\ table[i].email # table[j].email

NextUserId == Cardinality(DOMAIN users) + 1

\* the row register adds
NewUser_AsAdmin(req) ==
  [role_id |-> ADMIN_ROLE_ID, is_deleted |-> FALSE, deleted_at |-> None,
   username |-> Val(req.username), email |-> Val(req.email),
   hashed_password |-> hash_password("pw"), shift |-> Val(req.shift)]

NewUser(req) ==
  [role_id |-> 1, is_deleted |-> FALSE, deleted_at |-> None,
   username |-> Val(req.username), email |-> Val(req.email),
   hashed_password |-> hash_password("pw"), shift |-> Val(req.shift)]

\* register up to the result of its SELECT
check_register(p, req) ==
  LET found == {id \in DOMAIN users : \/ users[id].email = Val(req.email)
                                      \/ users[id].username = Val(req.username)}
      code == IF Cardinality(found) = 1 THEN 400
              ELSE IF Cardinality(found) > 1 THEN 500 ELSE 0
  IN
  /\ resp = NoResp
  /\ inflight[p] = Idle
  /\ Cardinality(DOMAIN users) < MaxUsers
  /\ inflight' = [inflight EXCEPT ![p] = [op |-> "register", u |-> 0, id |-> 0,
                                          seen |-> None, req |-> Some(req),
                                          status |-> code]]
  /\ UNCHANGED <<users, tasks, task_history, articles, article_history,
                 article_images, now, resp>>

\* the status of the duplicate checks of an update of user id by form req,
\* 0 when they pass; update_profile reads one row or none, the admin's
\* handler the first row
DuplicateStatus(id, req, one_or_none) ==
  LET row == users[id]
      names == IF IsSome(req.username) /\ Val(req.username) # row.username
               THEN RowsWith("username", Val(req.username), IF one_or_none THEN 0 ELSE id)
               ELSE {}
      mails == IF IsSome(req.email) /\ Val(req.email) # row.email
               THEN RowsWith("email", Val(req.email), IF one_or_none THEN 0 ELSE id)
               ELSE {}
  IN  IF one_or_none /\ Cardinality(names) > 1 THEN 500
      ELSE IF names # {} THEN 400
      ELSE IF one_or_none /\ Cardinality(mails) > 1 THEN 500
      ELSE IF mails # {} THEN 400
      ELSE 0

\* update_profile up to the result of its SELECTs
check_update_profile(p, u, req) ==
  /\ resp = NoResp
  /\ inflight[p] = Idle
  /\ inflight' = [inflight EXCEPT ![p] = [op |-> "update_profile", u |-> u, id |-> u,
                                          seen |-> Some(users[u]), req |-> Some(req),
                                          status |-> DuplicateStatus(u, req, TRUE)]]
  /\ UNCHANGED <<users, tasks, task_history, articles, article_history,
                 article_images, now, resp>>

\* admin_update_user up to the result of its SELECTs
check_admin_update_user(p, u, user_id, req) ==
  LET code == IF users[u].role_id # 2 THEN 403
              ELSE IF user_id \notin DOMAIN users THEN 404
              ELSE DuplicateStatus(user_id, req, FALSE)
  IN
  /\ resp = NoResp
  /\ inflight[p] = Idle
  /\ inflight' = [inflight EXCEPT ![p] = [op |-> "admin_update_user", u |-> u,
                                          id |-> user_id,
                                          seen |-> IF user_id \in DOMAIN users
                                                   THEN Some(users[user_id]) ELSE None,
                                          req |-> Some(req), status |-> code]]
  /\ UNCHANGED <<users, tasks, task_history, articles, article_history,
                 article_images, now, resp>>

\* the columns the handler assigned to the row it read, written to the row
\* as it is now
UserWritten(current, seen, req) ==
  LET a == IF IsSome(req.username) /\ Val(req.username) # seen.username
           THEN [current EXCEPT !.username = Val(req.username)] ELSE current
      b == IF IsSome(req.email) /\ Val(req.email) # seen.email
           THEN [a EXCEPT !.email = Val(req.email)] ELSE a
  IN  IF IsSome(req.shift) THEN [b EXCEPT !.shift = Val(req.shift)] ELSE b

\* the users table after the flush of the request in slot p
UsersFlushed(p) ==
  LET t == inflight[p] IN
  IF t.op = "register"
  THEN [id \in DOMAIN users \cup {NextUserId} |->
          IF id \in DOMAIN users THEN users[id] ELSE NewUser(Val(t.req))]
  ELSE [users EXCEPT ![t.id] = UserWritten(users[t.id], Val(t.seen), Val(t.req))]

\* register, update_profile or admin_update_user from the result of its
\* SELECTs to its response
commit_user(p, op, iso) ==
  LET t == inflight[p] IN
  /\ t.op = op
  /\ t.status = 0
  /\ IF iso = "serializable" /\ IsSome(t.seen) /\ users[t.id] # Val(t.seen)
     THEN /\ inflight' = [inflight EXCEPT ![p].status = 500]
          /\ UNCHANGED users
     ELSE IF ~Unique(UsersFlushed(p))
     THEN /\ inflight' = [inflight EXCEPT ![p].status = 500]
          /\ UNCHANGED users
     ELSE /\ inflight' = [inflight EXCEPT ![p].status = 200]
          /\ users' = UsersFlushed(p)
  /\ Cardinality(DOMAIN users') <= MaxUsers
  /\ UNCHANGED <<tasks, task_history, articles, article_history, article_images,
                 now, resp>>

\* the handlers that run in a slot
UserOps == {"register", "update_profile", "admin_update_user"}

\* a new request takes the first slot that is free
FirstFree(p) == inflight[p] = Idle /\ \A q \in Slots : q < p => inflight[q] # Idle

\* PUT /admin/users/{user_id}/password
update_user_password(u, user_id, new_password) ==
  /\ resp = NoResp
  /\ IF users[u].role_id # 2
     THEN /\ resp' = [NoResp EXCEPT !.op = "update_user_password", !.id = user_id, !.status = 403]
          /\ UNCHANGED users
     ELSE IF ~(user_id \in DOMAIN users /\ ~users[user_id].is_deleted)
     THEN /\ resp' = [NoResp EXCEPT !.op = "update_user_password", !.id = user_id, !.status = 404]
          /\ UNCHANGED users
     ELSE /\ resp' = [NoResp EXCEPT !.op = "update_user_password", !.id = user_id, !.status = 200]
          /\ users' = [users EXCEPT ![user_id].hashed_password = hash_password(new_password)]
  /\ UNCHANGED <<tasks, task_history, articles, article_history, article_images,
                 now, inflight>>

\* the requests of each kind, while the ledgers hold at most max rows
CreateRequests(max) ==
  \/ \E u \in Authors, inp \in TaskCreateInputs, f \in Faults :
       create_task(u, inp, f) /\ RowCount' <= max
  \/ \E u \in Authors, inp \in ArticleCreateInputs, f \in Faults :
       create_article(u, inp, f) /\ RowCount' <= max

EditRequests(max, task_reqs, article_reqs) ==
  \/ \E u \in Actors, id \in TaskIdInputs, req \in task_reqs, f \in Faults :
       update_task(u, id, req, f) /\ RowCount' <= max
  \/ \E u \in Actors, id \in TaskIdInputs, a \in ReassignInputs, c \in Comments,
        f \in Faults : reassign_task(u, id, a, c, f) /\ RowCount' <= max
  \/ \E u \in Actors, id \in ArticleIdInputs, req \in article_reqs,
        f \in Faults : update_article(u, id, req, f) /\ RowCount' <= max

LifeRequests(max) ==
  \/ \E u \in Actors, id \in TaskIdInputs, f \in Faults :
       delete_task(u, id, f) /\ RowCount' <= max
  \/ \E u \in Actors, id \in TaskIdInputs, f \in Faults :
       restore_task(u, id, f) /\ RowCount' <= max
  \/ \E u \in Actors, id \in ArticleIdInputs, f \in Faults :
       delete_article(u, id, f) /\ RowCount' <= max
  \/ \E u \in Actors, id \in ArticleIdInputs, f \in Faults :
       restore_article(u, id, f) /\ RowCount' <= max

HistoryRequests(max) ==
  \/ \E u \in Actors, id \in TaskIdInputs, o \in Offsets, l \in Limits :
       get_task_history(u, id, o, l) /\ RowCount' <= max
  \/ \E u \in Actors, id \in ArticleIdInputs, o \in Offsets, l \in Limits :
       get_article_history(u, id, o, l) /\ RowCount' <= max

ListRequests ==
  \/ \E u \in Actors, sf \in StatusFilters : get_my_tasks(u, sf)
  \/ \E u \in Actors, sh \in Shifts : get_shift_tasks(u, sh)
  \/ \E u \in Actors, t \in TitleFilters, a \in AuthorFilters, o \in Offsets,
        l \in Limits : get_articles(u, t, a, o, l)

Init ==
  /\ users = InitUsers
  /\ tasks = <<>>
  /\ task_history = <<>>
  /\ articles = <<>>
  /\ article_history = <<>>
  /\ article_images = <<>>
  /\ now = 0
  /\ resp = NoResp
  /\ inflight = [p \in Slots |-> Idle]

\* every request of the two subsystems
Next ==
  \/ CreateRequests(MaxRecords)
  \/ EditRequests(MaxRecords, TaskUpdateSample, ArticleUpdateSample)
  \/ LifeRequests(MaxRecords)
  \/ HistoryRequests(MaxRecords)
  \/ ListRequests
  \/ Deliver
  \/ Tick(CoarseInstants)

Spec == Init /\ [][Next]_vars

\* delete and restore cycles
NextLife ==
  \/ CreateRequests(MaxLifeRecords)
  \/ LifeRequests(MaxLifeRecords)
  \/ HistoryRequests(MaxLifeRecords)
  \/ ListRequests
  \/ Deliver
  \/ Tick(Instants)

SpecLife == Init /\ [][NextLife]_vars

\* updates and reassignments
NextEdit ==
  \/ CreateRequests(MaxEditRecords)
  \/ EditRequests(MaxEditRecords, TaskUpdateInputs, ArticleUpdateInputs)
  \/ Deliver

SpecEdit == Init /\ [][NextEdit]_vars

\* overlapping delete and restore requests
NextConc ==
  \/ CreateRequests(MaxConcRecords)
  \/ Deliver
  \/ \E p \in Slots, u \in Actors, id \in TaskIdInputs : select(p, "delete_task", u, id)
  \/ \E p \in Slots, u \in Actors, id \in TaskIdInputs : select(p, "restore_task", u, id)
  \/ \E p \in Slots, u \in Actors, id \in ArticleIdInputs :
       select(p, "delete_article", u, id)
  \/ \E p \in Slots, u \in Actors, id \in ArticleIdInputs :
       select(p, "restore_article", u, id)
  \/ \E p \in Slots, iso \in Isolations : commit(p, "delete_task", iso)
  \/ \E p \in Slots, iso \in Isolations : commit(p, "restore_task", iso)
  \/ \E p \in Slots, iso \in Isolations : commit(p, "delete_article", iso)
  \/ \E p \in Slots, iso \in Isolations : commit(p, "restore_article", iso)
  \/ \E p \in Slots : deliver(p)

SpecConc == Init /\ [][NextConc]_vars

\* update_article requests that overlap, next to creates
NextRace ==
  \/ CreateRequests(MaxRaceRecords)
  \/ Deliver
  \/ \E p \in Slots, u \in RaceActors, id \in ArticleIdInputs, req \in ArticleRaceInputs :
       select_edit(p, "update_article", u, id, req)
  \/ \E p \in Slots, iso \in Isolations : commit_update_article(p, iso)
  \/ \E p \in Slots : deliver(p)

SpecRace == Init /\ [][NextRace]_vars

\* a reassign_task request that overlaps with the deletion of a user
NextAssign ==
  \/ CreateRequests(MaxAssignRecords)
  \/ Deliver
  \/ \E p \in AssignSlots, sub \in AssignSubs, id \in TaskIdInputs, req \in ReassignRaceInputs :
       /\ IsSome(get_current_user(sub))
       /\ select_edit(p, "reassign_task", Val(get_current_user(sub)), id, req)
  \/ \E p \in AssignSlots, iso \in Isolations : commit_reassign_task(p, iso)
  \/ \E p \in AssignSlots : deliver(p)
  \/ \E sub \in ActorSubs, user_id \in DeletedInputs :
       /\ IsSome(get_current_user(sub))
       /\ delete_user(Val(get_current_user(sub)), user_id)
  \/ Tick(CoarseInstants)

SpecAssign == Init /\ [][NextAssign]_vars


\* the requests on user accounts; the caller is the user the token resolves to
NextUsers ==
  \/ \E p \in Slots, req \in RegisterInputs : FirstFree(p) /\ check_register(p, req)
  \/ \E p \in Slots, sub \in Subs, req \in ProfileInputs :
       /\ FirstFree(p) /\ IsSome(get_current_user(sub))
       /\ check_update_profile(p, Val(get_current_user(sub)), req)
  \/ \E p \in Slots, sub \in Subs, user_id \in TargetInputs, req \in ProfileInputs :
       /\ FirstFree(p) /\ IsSome(get_current_user(sub))
       /\ check_admin_update_user(p, Val(get_current_user(sub)), user_id, req)
  \/ \E p \in Slots, iso \in Isolations : commit_user(p, "register", iso)
  \/ \E p \in Slots, iso \in Isolations : commit_user(p, "update_profile", iso)
  \/ \E p \in Slots, iso \in Isolations : commit_user(p, "admin_update_user", iso)
  \/ \E p \in Slots : deliver(p)
  \/ \E sub \in Subs, user_id \in UserIdInputs, pw \in NewPasswords :
       /\ IsSome(get_current_user(sub))
       /\ update_user_password(Val(get_current_user(sub)), user_id, pw)
  \/ \E sub \in Subs, user_id \in UserIdInputs :
       /\ IsSome(get_current_user(sub))
       /\ delete_user(Val(get_current_user(sub)), user_id)
  \/ Deliver

SpecUsers == Init /\ [][NextUsers]_vars

(***************************************************************************)
(* Properties.                                                             *)
(***************************************************************************)
Success(r) == r.status \in {200, 201}

\* the caller is neither the author nor elevated
Unprivileged(u, e) == e.author_id # u /\ users[u].role_id # ADMIN_ROLE_ID

\* C1: in every reachable state, every task and every article has
\* is_deleted = TRUE exactly when its deleted_at is not null.
C1_DeletedIffDeletedAt ==
  /\ \A id \in DOMAIN tasks : tasks[id].is_deleted <=> IsSome(tasks[id].deleted_at)
  /\ \A id \in DOMAIN articles :
       articles[id].is_deleted <=> IsSome(articles[id].deleted_at)

\* a task that was deleted and has just been restored
C1_Witness ==
  /\ resp.op = "restore_task" /\ Success(resp)
  /\ 1 \in DOMAIN tasks /\ ~tasks[1].is_deleted /\ tasks[1].deleted_at = None
  /\ \E i \in 1..Len(task_history) : task_history[i].event = "TASK_DELETED"

\* the condition of the claim C2: deleted, and at most 7 days ago
WithinWindow(e) ==
  e.is_deleted /\ IsSome(e.deleted_at) /\ now - Val(e.deleted_at) <= RETENTION_DAYS

\* C2: a restore issued by the author or an elevated actor, with the storage
\* working, succeeds when the entity is deleted and now - deleted_at <= 7 days,
\* and answers NotFound (404) in every other case.
C2_RestoreIffWithinWindow ==
  [][/\ resp'.op = "restore_task" =>
          \A u \in Actors, id \in DOMAIN tasks :
            (restore_task(u, id, "none") /\ ~Unprivileged(u, tasks[id])) =>
              resp'.status = IF WithinWindow(tasks[id]) THEN 200 ELSE 404
     /\ resp'.op = "restore_article" =>
          \A u \in Actors, id \in DOMAIN articles :
            (restore_article(u, id, "none") /\ ~Unprivileged(u, articles[id])) =>
              resp'.status = IF WithinWindow(articles[id]) THEN 200 ELSE 404]_vars

\* the part of C2 the handlers keep: success exactly within the window
C2_SuccessIffWithinWindow ==
  [][/\ resp'.op = "restore_task" =>
          \A u \in Actors, id \in DOMAIN tasks :
            (restore_task(u, id, "none") /\ ~Unprivileged(u, tasks[id])) =>
              (Success(resp') <=> WithinWindow(tasks[id]))
     /\ resp'.op = "restore_article" =>
          \A u \in Actors, id \in DOMAIN articles :
            (restore_article(u, id, "none") /\ ~Unprivileged(u, articles[id])) =>
              (Success(resp') <=> WithinWindow(articles[id]))]_vars


\* the ledger of one entity, in the order of insertion
TaskLedger(table, id) == SelectSeq(table, LAMBDA r : r.task_id = id)
ArticleLedger(table, id) == SelectSeq(table, LAMBDA r : r.article_id = id)

\* the rows a step appended to a ledger
Appended(before, after) == SubSeq(after, Len(before) + 1, Len(after))

\* the supplied fields whose value differs from the entity's current value
TaskDiffKeys(t, req) ==
  {k \in {"title", "description", "assignee_id", "status"} :
     /\ IsSome(req[k])
     /\ IF k = "description" THEN req[k] # t[k] ELSE Val(req[k]) # t[k]}

ArticleDiffKeys(a, req) ==
  {k \in {"title", "content"} : IsSome(req[k]) /\ Val(req[k]) # a[k]}

\* the fields an article UPDATE row records as changed
ArticleRowKeys(row) ==
  (IF IsSome(row.new_title) \/ IsSome(row.old_title) THEN {"title"} ELSE {})
  \cup (IF IsSome(row.new_content) \/ IsSome(row.old_content) THEN {"content"} ELSE {})

\* C3: an update request (without files) in which no supplied field differs
\* from the entity's current value appends no history record: the entity's
\* ledger is as long after the request as before.
C3_NoOpUpdateSilent ==
  [][/\ resp'.op = "update_task" =>
          \A u \in Actors, id \in DOMAIN tasks, req \in TaskUpdateInputs,
             f \in Faults :
            (/\ update_task(u, id, req, f)
             /\ req.images = <<>>
             /\ TaskDiffKeys(tasks[id], req) = {}) =>
              Len(TaskLedger(task_history', id)) = Len(TaskLedger(task_history, id))
     /\ resp'.op = "update_article" =>
          \A u \in Actors, id \in DOMAIN articles, req \in ArticleUpdateInputs,
             f \in Faults :
            (/\ update_article(u, id, req, f)
             /\ req.images = <<>>
             /\ ArticleDiffKeys(articles[id], req) = {}) =>
              Len(ArticleLedger(article_history', id)) =
                Len(ArticleLedger(article_history, id))]_vars

\* C4: a successful update request (without files) in which k >= 1 supplied
\* fields differ appends exactly one UPDATED record, and the record holds
\* exactly the k changed fields.
C4_OneUpdatedRecordOfChangedFields ==
  [][/\ resp'.op = "update_task" =>
          \A u \in Actors, id \in DOMAIN tasks, req \in TaskUpdateInputs :
            (/\ update_task(u, id, req, "none")
             /\ Success(resp')
             /\ req.images = <<>>
             /\ TaskDiffKeys(tasks[id], req) # {}) =>
              LET new == Appended(TaskLedger(task_history, id),
                                  TaskLedger(task_history', id))
              IN  /\ Len(new) = 1
                  /\ new[1].event = "TASK_UPDATED"
                  /\ DOMAIN new[1].changes = TaskDiffKeys(tasks[id], req)
     /\ resp'.op = "update_article" =>
          \A u \in Actors, id \in DOMAIN articles, req \in ArticleUpdateInputs :
            (/\ update_article(u, id, req, "none")
             /\ Success(resp')
             /\ req.images = <<>>
             /\ ArticleDiffKeys(articles[id], req) # {}) =>
              LET new == Appended(ArticleLedger(article_history, id),
                                  ArticleLedger(article_history', id))
              IN  /\ Len(new) = 1
                  /\ new[1].event = "UPDATE"
                  /\ ArticleRowKeys(new[1]) = ArticleDiffKeys(articles[id], req)]_vars

\* C5: an update request by an actor who is neither the author nor elevated
\* is answered Forbidden (403) and changes neither the entity nor its ledger
\* (requests that meet no database fault).
C5_UpdateForbiddenForOthers ==
  [][/\ resp'.op = "update_task" =>
          \A u \in Actors, id \in DOMAIN tasks, req \in TaskUpdateInputs :
            (update_task(u, id, req, "none") /\ Unprivileged(u, tasks[id])) =>
              /\ resp'.status = 403
              /\ tasks'[id] = tasks[id]
              /\ TaskLedger(task_history', id) = TaskLedger(task_history, id)
     /\ resp'.op = "update_article" =>
          \A u \in Actors, id \in DOMAIN articles, req \in ArticleUpdateInputs :
            (update_article(u, id, req, "none") /\ Unprivileged(u, articles[id])) =>
              /\ resp'.status = 403
              /\ articles'[id] = articles[id]
              /\ article_images' = article_images
              /\ ArticleLedger(article_history', id) =
                   ArticleLedger(article_history, id)]_vars


\* C6: a delete, restore, reassign or history request on an entity by an actor
\* who is neither its author nor elevated is rejected, returns no history
\* record, and leaves the entity and the ledgers unchanged; this covers the
\* assignee of a task who is not its author.
C6_OthersRejectedWithoutEffect ==
  [][LET Rejected == /\ ~Success(resp')
                     /\ resp'.body = <<>>
                     /\ tasks' = tasks
                     /\ task_history' = task_history
                     /\ articles' = articles
                     /\ article_history' = article_history
     IN
     /\ resp'.op \in {"delete_task", "restore_task", "reassign_task",
                      "get_task_history"} =>
          \A u \in Actors, id \in DOMAIN tasks :
            (/\ Unprivileged(u, tasks[id])
             /\ \/ \E f \in Faults : delete_task(u, id, f)
                \/ \E f \in Faults : restore_task(u, id, f)
                \/ \E a \in ReassignInputs, c \in Comments, f \in Faults :
                     reassign_task(u, id, a, c, f)
                \/ \E o \in Offsets, l \in Limits : get_task_history(u, id, o, l))
            => Rejected
     /\ resp'.op \in {"delete_article", "restore_article",
                      "get_article_history"} =>
          \A u \in Actors, id \in DOMAIN articles :
            (/\ Unprivileged(u, articles[id])
             /\ \/ \E f \in Faults : delete_article(u, id, f)
                \/ \E f \in Faults : restore_article(u, id, f)
                \/ \E o \in Offsets, l \in Limits :
                     get_article_history(u, id, o, l))
            => Rejected]_vars

\* the assignee of task 1, who is not its author, was refused the deletion
C6_Witness ==
  /\ resp.op = "delete_task" /\ ~Success(resp)
  /\ \E i \in 1..Len(resp.detail) : resp.detail[i] = "403"
  /\ 1 \in DOMAIN tasks /\ tasks[1].assignee_id = 2 /\ tasks[1].author_id = 1
  /\ ~tasks[1].is_deleted

IsPrefix(s, t) == Len(s) <= Len(t) /\ \A i \in 1..Len(s) : s[i] = t[i]

\* C9: the ledgers are append-only: every step keeps every history record
\* that existed before it, with the same content and at the same place, so
\* no entity's number of records decreases.
C9_LedgerAppendOnly ==
  [][/\ IsPrefix(task_history, task_history')
     /\ IsPrefix(article_history, article_history')]_vars

\* a restore has appended to a ledger that already held CREATED and DELETED
C9_Witness ==
  /\ resp.op = "restore_task" /\ Success(resp)
  /\ Len(task_history) = 3
  /\ task_history[1].event = "TASK_CREATED"
  /\ task_history[2].event = "TASK_DELETED"
  /\ task_history[3].event = "TASK_RESTORED"

\* C10: no task and no article is ever removed from the store: no step
\* shrinks the set of entity ids, also after the restoration window of a
\* soft-deleted entity has expired.
C10_NoPhysicalRemoval ==
  [][DOMAIN tasks \subseteq DOMAIN tasks' /\ DOMAIN articles \subseteq DOMAIN articles']_vars

\* a restore was refused after the window expired, and the task is still stored
C10_Witness ==
  /\ resp.op = "restore_task" /\ ~Success(resp)
  /\ 1 \in DOMAIN tasks /\ tasks[1].is_deleted
  /\ now - Val(tasks[1].deleted_at) > RETENTION_DAYS


\* the mutation a task history record describes is present in the store
TaskRowApplied(row, store) ==
  LET t == store[row.task_id] IN
  CASE row.event = "IMAGE_ADDED" ->
         \E i \in 1..Len(t.image_paths) : t.image_paths[i] = row.changes.image_path
    [] row.event = "TASK_UPDATED" ->
         \A k \in DOMAIN row.changes : row.changes[k] = t[k]
    [] row.event = "TASK_DELETED" -> t.is_deleted
    [] row.event = "TASK_RESTORED" -> ~t.is_deleted
    [] row.event = "TASK_REASSIGNED" -> t.assignee_id = row.changes.assignee_id.new
    [] OTHER -> TRUE

\* the mutation an article history record describes is present in the store
ArticleRowApplied(row, store) ==
  LET a == store[row.article_id] IN
  CASE row.event = "UPDATE" ->
         /\ IsSome(row.new_title) => a.title = Val(row.new_title)
         /\ IsSome(row.new_content) => a.content = Val(row.new_content)
    [] row.event = "DELETE" -> a.is_deleted
    [] row.event = "RESTORE" -> ~a.is_deleted
    [] OTHER -> TRUE

\* C7: every request is all-or-nothing.  A request that fails leaves the
\* entity stores and the ledgers as they were; a request that succeeds changes
\* an entity only together with a record in that entity's ledger, and every
\* record it appends describes a mutation that is present in the store.
C7_AllOrNothing ==
  [][resp'.op # "none" =>
       /\ ~Success(resp') =>
            /\ tasks' = tasks /\ task_history' = task_history
            /\ articles' = articles /\ article_history' = article_history
            /\ article_images' = article_images
       /\ Success(resp') =>
            /\ \A id \in DOMAIN tasks' :
                 (id \notin DOMAIN tasks \/ tasks'[id] # tasks[id]) =>
                   Len(TaskLedger(task_history', id)) >
                     Len(TaskLedger(task_history, id))
            /\ \A i \in (Len(task_history) + 1)..Len(task_history') :
                 TaskRowApplied(task_history'[i], tasks')
            /\ \A id \in DOMAIN articles' :
                 (id \notin DOMAIN articles \/ articles'[id] # articles[id]) =>
                   Len(ArticleLedger(article_history', id)) >
                     Len(ArticleLedger(article_history, id))
            /\ article_images' # article_images =>
                 Len(article_history') > Len(article_history)
            /\ \A i \in (Len(article_history) + 1)..Len(article_history') :
                 ArticleRowApplied(article_history'[i], articles')]_vars


Events(s) == [i \in 1..Len(s) |-> s[i].event]

\* the last n elements of a sequence
LastN(s, n) == SubSeq(s, Len(s) - n + 1, Len(s))

\* the rows of a page that belong to a set of rows come newest-first
NewestFirstAmong(page, rows) ==
  \A i, j \in 1..Len(page) :
    (i < j /\ page[i] \in rows /\ page[j] \in rows) => page[i].id > page[j].id

\* C8: a successful delete appends exactly one DELETED record and a successful
\* restore exactly one RESTORED record, so delete, restore, delete leaves the
\* three records DELETED, RESTORED, DELETED in that order; and a history
\* request on an entity whose ledger ends with these three records returns
\* them newest-first, the second DELETED before RESTORED before the first.
C8_DeleteRestoreDeleteNewestFirst ==
  [][/\ (resp'.op = "delete_task" /\ Success(resp')) =>
          Events(Appended(task_history, task_history')) = <<"TASK_DELETED">>
     /\ (resp'.op = "restore_task" /\ Success(resp')) =>
          Events(Appended(task_history, task_history')) = <<"TASK_RESTORED">>
     /\ (resp'.op = "delete_article" /\ Success(resp')) =>
          Events(Appended(article_history, article_history')) = <<"DELETE">>
     /\ (resp'.op = "restore_article" /\ Success(resp')) =>
          Events(Appended(article_history, article_history')) = <<"RESTORE">>
     /\ (resp'.op = "get_task_history" /\ Success(resp')) =>
          \A id \in DOMAIN tasks :
            LET ledger == TaskLedger(task_history, id) IN
            (/\ resp'.id = id
             /\ Len(ledger) >= 3
             /\ Events(LastN(ledger, 3)) =
                  <<"TASK_DELETED", "TASK_RESTORED", "TASK_DELETED">>) =>
              NewestFirstAmong(resp'.body,
                               {ledger[i] : i \in (Len(ledger) - 2)..Len(ledger)})
     /\ (resp'.op = "get_article_history" /\ Success(resp')) =>
          \A id \in DOMAIN articles :
            LET ledger == ArticleLedger(article_history, id) IN
            (/\ resp'.id = id
             /\ Len(ledger) >= 3
             /\ Events(LastN(ledger, 3)) = <<"DELETE", "RESTORE", "DELETE">>) =>
              NewestFirstAmong(resp'.body,
                               {ledger[i] : i \in (Len(ledger) - 2)..Len(ledger)})]_vars


\* deleted, and the retention window has passed
Expired(e) ==
  e.is_deleted /\ IsSome(e.deleted_at) /\ now - Val(e.deleted_at) > RETENTION_DAYS

\* C11: once the window of a soft-deleted entity has expired, every step
\* leaves it deleted with the same deleted_at, and every restore request on
\* it fails; as the clock does not go back, the entity stays expired in every
\* later state.
C11_ExpiredStaysDeleted ==
  [][/\ \A id \in DOMAIN tasks :
          Expired(tasks[id]) =>
            /\ id \in DOMAIN tasks'
            /\ tasks'[id].is_deleted
            /\ tasks'[id].deleted_at = tasks[id].deleted_at
            /\ now' - Val(tasks'[id].deleted_at) > RETENTION_DAYS
            /\ (resp = NoResp /\ resp'.op = "restore_task" /\ resp'.id = id) =>
                 ~Success(resp')
     /\ \A id \in DOMAIN articles :
          Expired(articles[id]) =>
            /\ id \in DOMAIN articles'
            /\ articles'[id].is_deleted
            /\ articles'[id].deleted_at = articles[id].deleted_at
            /\ now' - Val(articles'[id].deleted_at) > RETENTION_DAYS
            /\ (resp = NoResp /\ resp'.op = "restore_article" /\ resp'.id = id) =>
                 ~Success(resp')]_vars

\* a restore of an article was refused after its window had expired
C11_Witness ==
  /\ resp.op = "restore_article" /\ ~Success(resp)
  /\ 1 \in DOMAIN articles /\ Expired(articles[1])
  /\ \E i \in 1..Len(article_history) : article_history[i].event = "DELETE"


ListedIds(body) == {body[i].id : i \in 1..Len(body)}

\* C12: the default list queries never return a soft-deleted entity, and
\* return every entity that is not deleted and passes the other filters of
\* the request (first page): an entity leaves the lists with its deletion and
\* is back in them after its restoration.
C12_ListsHideDeleted ==
  [][(resp = NoResp /\ Success(resp')) =>
       /\ resp'.op \in {"get_my_tasks", "get_shift_tasks"} =>
            \A id \in DOMAIN tasks :
              tasks[id].is_deleted => id \notin ListedIds(resp'.body)
       /\ resp'.op = "get_articles" =>
            \A id \in DOMAIN articles :
              articles[id].is_deleted => id \notin ListedIds(resp'.body)
       /\ resp'.op = "get_my_tasks" =>
            \A u \in Actors, sf \in StatusFilters :
              get_my_tasks(u, sf) =>
                \A id \in DOMAIN tasks :
                  (/\ ~tasks[id].is_deleted
                   /\ u \in {tasks[id].author_id, tasks[id].assignee_id}
                   /\ sf \in {None, Some(tasks[id].status)})
                  => id \in ListedIds(resp'.body)
       /\ resp'.op = "get_shift_tasks" =>
            \A u \in Actors, sh \in Shifts :
              get_shift_tasks(u, sh) =>
                \A id \in DOMAIN tasks :
                  (/\ ~tasks[id].is_deleted
                   /\ users[tasks[id].assignee_id].shift = sh
                   /\ tasks[id].status # "COMPLETED")
                  => id \in ListedIds(resp'.body)
       /\ resp'.op = "get_articles" =>
            \A u \in Actors, t \in TitleFilters, a \in AuthorFilters, l \in Limits :
              (get_articles(u, t, a, 0, l) /\ Cardinality(DOMAIN articles) <= l) =>
                \A id \in DOMAIN articles :
                  (/\ ~articles[id].is_deleted
                   /\ t \in {None, Some(articles[id].title)}
                   /\ a \in {None, Some(articles[id].author_id)})
                  => id \in ListedIds(resp'.body)]_vars

\* task 1 is listed again after its restoration
C12_Witness ==
  /\ resp.op = "get_my_tasks" /\ Success(resp)
  /\ ListedIds(resp.body) = {1}
  /\ Len(task_history) = 3 /\ task_history[3].event = "TASK_RESTORED"


\* C13: a delete request (by the author or an elevated actor, meeting no
\* database fault) on an entity that is already soft-deleted is answered
\* NotFound (404), appends no record and leaves deleted_at as the first
\* delete set it.
C13_SecondDeleteNotFound ==
  [][/\ resp'.op = "delete_task" =>
          \A u \in Actors, id \in DOMAIN tasks :
            (/\ delete_task(u, id, "none")
             /\ ~Unprivileged(u, tasks[id])
             /\ tasks[id].is_deleted) =>
              /\ resp'.status = 404
              /\ task_history' = task_history
              /\ tasks'[id].deleted_at = tasks[id].deleted_at
     /\ resp'.op = "delete_article" =>
          \A u \in Actors, id \in DOMAIN articles :
            (/\ delete_article(u, id, "none")
             /\ ~Unprivileged(u, articles[id])
             /\ articles[id].is_deleted) =>
              /\ resp'.status = 404
              /\ article_history' = article_history
              /\ articles'[id].deleted_at = articles[id].deleted_at]_vars

\* the part of C13 the handlers keep: no record, deleted_at as it was
C13_SecondDeleteWithoutEffect ==
  [][/\ resp'.op = "delete_task" =>
          \A u \in Actors, id \in DOMAIN tasks :
            (delete_task(u, id, "none") /\ tasks[id].is_deleted) =>
              /\ ~Success(resp')
              /\ task_history' = task_history
              /\ tasks' = tasks
     /\ resp'.op = "delete_article" =>
          \A u \in Actors, id \in DOMAIN articles :
            (delete_article(u, id, "none") /\ articles[id].is_deleted) =>
              /\ ~Success(resp')
              /\ article_history' = article_history
              /\ articles' = articles]_vars


\* the delete and restore records of a ledger, in the order of insertion
LifeEvents(ledger) ==
  SelectSeq(Events(ledger),
            LAMBDA e : e \in {"TASK_DELETED", "TASK_RESTORED", "DELETE", "RESTORE"})

\* the records a serial run leaves: DELETED first, then RESTORED and DELETED
\* in turn
SerialLife(ev) ==
  /\ ev # <<>> => ev[1] \in {"TASK_DELETED", "DELETE"}
  /\ \A i \in 1..(Len(ev) - 1) : ev[i] # ev[i + 1]

\* C14: overlapping lifecycle requests on one entity leave a state that a
\* serial order of them would leave: in every ledger DELETED and RESTORED
\* records take turns, so two overlapping deletes of an ACTIVE entity leave
\* one DELETED record and two overlapping restores one RESTORED record.
C14_OverlapIsSerial ==
  /\ \A id \in DOMAIN tasks : SerialLife(LifeEvents(TaskLedger(task_history, id)))
  /\ \A id \in DOMAIN articles :
       SerialLife(LifeEvents(ArticleLedger(article_history, id)))


\* the fields a task is created with
TaskFields == {"title", "description", "assignee_id", "author_id", "status", "image_paths"}

\* the parts of C15 other than the payload: the new entity is ACTIVE with
\* the caller as author, one CREATED record with the caller as user_id is
\* appended, and without an image it is the whole ledger of the entity
C15_CreateAppendsOneCreated ==
  [][/\ (resp'.op = "create_task" /\ Success(resp')) =>
          \A u \in Actors, inp \in TaskCreateInputs :
            create_task(u, inp, "none") =>
              LET id == resp'.id
                  t == tasks'[id]
                  ledger == TaskLedger(task_history', id)
                  created == SelectSeq(ledger, LAMBDA r : r.event = "TASK_CREATED")
              IN  /\ id \notin DOMAIN tasks
                  /\ ~t.is_deleted /\ t.deleted_at = None /\ t.author_id = u
                  /\ Len(created) = 1 /\ created[1].user_id = u
                  /\ Appended(task_history, task_history') = ledger
                  /\ inp.images = <<>> =>
                       /\ Events(ledger) = <<"TASK_CREATED">>
                       /\ created[1].changes = [k \in TaskFields |-> t[k]]
     /\ (resp'.op = "create_article" /\ Success(resp')) =>
          \A u \in Actors, inp \in ArticleCreateInputs :
            create_article(u, inp, "none") =>
              LET id == resp'.id
                  a == articles'[id]
                  ledger == ArticleLedger(article_history', id)
              IN  /\ id \notin DOMAIN articles
                  /\ ~a.is_deleted /\ a.deleted_at = None /\ a.author_id = u
                  /\ Events(ledger) = <<"CREATE">>
                  /\ Appended(article_history, article_history') = ledger
                  /\ ledger[1].user_id = u
                  /\ ledger[1].new_title = Some(a.title)
                  /\ ledger[1].new_content = Some(a.content)
                  /\ ledger[1].old_title = None /\ ledger[1].old_content = None]_vars

\* C15: after a successful create by actor A the new entity is ACTIVE with
\* author_id = A, its ledger holds exactly one CREATED record, with
\* user_id = A, and the payload of that record is the snapshot of the fields
\* the entity was created with; without an image the ledger is [CREATED].
C15_CreatedRecordIsSnapshot ==
  [][(resp'.op = "create_task" /\ Success(resp')) =>
       LET id == resp'.id
           t == tasks'[id]
           ledger == TaskLedger(task_history', id)
           created == SelectSeq(ledger, LAMBDA r : r.event = "TASK_CREATED")
       IN  /\ ~t.is_deleted /\ t.deleted_at = None
           /\ Len(created) = 1 /\ created[1].user_id = t.author_id
           /\ created[1].changes = [k \in TaskFields |-> t[k]]
           /\ t.image_paths = <<>> => Events(ledger) = <<"TASK_CREATED">>]_vars

\* the answers of a request refused for what it names
RefusedAsInvalid(r) == r.status \in {400, 404, 422}

\* the part of C16 the handlers keep: a request naming an assignee that does
\* not exist or is soft-deleted does not succeed and changes nothing
C16_BadAssigneeWithoutEffect ==
  [][(/\ resp'.op \in {"reassign_task", "update_task", "create_task"}
      /\ \/ \E u \in Actors, id \in DOMAIN tasks, a \in ReassignInputs, c \in Comments :
              reassign_task(u, id, a, c, "none") /\ ~verify_assignee(a)
         \/ \E u \in Actors, id \in DOMAIN tasks, req \in TaskUpdateInputs :
              /\ update_task(u, id, req, "none")
              /\ IsSome(req.assignee_id) /\ ~verify_assignee(Val(req.assignee_id))
         \/ \E u \in Actors, inp \in TaskCreateInputs :
              create_task(u, inp, "none") /\ ~verify_assignee(inp.assignee_id))
       => /\ ~Success(resp')
          /\ tasks' = tasks /\ task_history' = task_history]_vars

\* C16: a reassign by the author or an elevated actor, an update and a create
\* that name an assignee who does not exist or is soft-deleted are answered
\* as a validation or not-found failure, leave every task as it was (the
\* assignee included) and append no record.
C16_BadAssigneeRefused ==
  [][/\ resp'.op = "reassign_task" =>
          \A u \in Actors, id \in DOMAIN tasks, a \in ReassignInputs, c \in Comments :
            (/\ reassign_task(u, id, a, c, "none")
             /\ ~tasks[id].is_deleted /\ ~Unprivileged(u, tasks[id])
             /\ ~verify_assignee(a))
              => /\ RefusedAsInvalid(resp')
                 /\ tasks' = tasks /\ task_history' = task_history
     /\ resp'.op = "update_task" =>
          \A u \in Actors, id \in DOMAIN tasks, req \in TaskUpdateInputs :
            (/\ update_task(u, id, req, "none")
             /\ IsSome(req.assignee_id) /\ ~verify_assignee(Val(req.assignee_id)))
              => /\ RefusedAsInvalid(resp')
                 /\ tasks' = tasks /\ task_history' = task_history
     /\ resp'.op = "create_task" =>
          \A u \in Actors, inp \in TaskCreateInputs :
            (create_task(u, inp, "none") /\ ~verify_assignee(inp.assignee_id))
              => /\ RefusedAsInvalid(resp')
                 /\ tasks' = tasks /\ task_history' = task_history]_vars

\* C17: a reassign of a non-deleted task by its author or an elevated actor
\* to an existing, active user succeeds, sets assignee_id to the requested
\* user and nothing else, and appends exactly one REASSIGNED record holding
\* the assignee before the request as old, the requested one as new, and the
\* comment of the request; a reassign of a soft-deleted task is answered
\* 404 and changes neither the tasks nor the ledger.
C17_ReassignRecordsOldAndNew ==
  [][resp'.op = "reassign_task" =>
       \A u \in Actors, id \in DOMAIN tasks, a \in ReassignInputs, c \in Comments :
         reassign_task(u, id, a, c, "none") =>
           /\ Success(resp') <=>
                (~tasks[id].is_deleted /\ ~Unprivileged(u, tasks[id]) /\ verify_assignee(a))
           /\ Success(resp') =>
                /\ tasks' = [tasks EXCEPT ![id].assignee_id = a]
                /\ Len(task_history') = Len(task_history) + 1
                /\ IsPrefix(task_history, task_history')
                /\ LET row == task_history'[Len(task_history')]
                   IN  /\ row.event = "TASK_REASSIGNED"
                       /\ row.task_id = id /\ row.user_id = u
                       /\ row.changes = [assignee_id |-> [old |-> tasks[id].assignee_id, new |-> a]]
                       /\ row.comment = c
           /\ tasks[id].is_deleted =>
                /\ resp'.status = 404
                /\ tasks' = tasks /\ task_history' = task_history]_vars

\* the elevated actor has just given a task of another author to another user
C17_Witness ==
  /\ resp.op = "reassign_task" /\ Success(resp)
  /\ task_history # <<>>
  /\ LET row == task_history[Len(task_history)]
     IN  /\ row.event = "TASK_REASSIGNED"
         /\ row.user_id # tasks[row.task_id].author_id
         /\ row.changes.assignee_id.old # row.changes.assignee_id.new
         /\ tasks[row.task_id].assignee_id = row.changes.assignee_id.new

\* the image list of an entity: the image_paths of a task, the image paths
\* of the article_images rows of an article
TaskImages(store, id) == IF id \in DOMAIN store THEN store[id].image_paths ELSE <<>>
ArticleImages(table, id) ==
  LET rows == SelectSeq(table, LAMBDA r : r.article_id = id)
  IN  [i \in 1..Len(rows) |-> rows[i].image_path]

\* the number of records of one event among the rows a step appended
CountEvent(rows, event) == Len(SelectSeq(rows, LAMBDA r : r.event = event))

\* what C18 says of one successful request with the files imgs on entity id
ImagesRecorded(imgs, only_images, before, after, rows, updated) ==
  /\ IsPrefix(before, after) /\ Len(after) = Len(before) + Len(imgs)
  /\ CountEvent(rows, "IMAGE_ADDED") = Len(imgs)
  /\ (imgs # <<>> /\ only_images) => CountEvent(rows, updated) = 0

\* the part of C18 the handlers keep: a task request appends one IMAGE_ADDED
\* record per file, an article request one article_images row per file after
\* the rows the article had
C18_OneRowPerFile ==
  [][/\ (resp'.op \in {"create_task", "update_task"} /\ Success(resp')) =>
          \A u \in Actors, inp \in TaskCreateInputs, id \in TaskIdInputs, req \in TaskUpdateInputs :
            (create_task(u, inp, "none") \/ update_task(u, id, req, "none")) =>
              LET imgs == IF resp'.op = "create_task" THEN inp.images ELSE req.images
              IN  CountEvent(Appended(task_history, task_history'), "IMAGE_ADDED") = Len(imgs)
     /\ (resp'.op \in {"create_article", "update_article"} /\ Success(resp')) =>
          \A u \in Actors, inp \in ArticleCreateInputs, id \in ArticleIdInputs, req \in ArticleUpdateInputs :
            (create_article(u, inp, "none") \/ update_article(u, id, req, "none")) =>
              LET imgs == IF resp'.op = "create_article" THEN inp.images ELSE req.images
                  before == ArticleImages(article_images, resp'.id)
                  after == ArticleImages(article_images', resp'.id)
              IN  IsPrefix(before, after) /\ Len(after) = Len(before) + Len(imgs)]_vars

\* C18: a successful task or article request that attaches n files appends
\* n references to the image list of the entity, after the references it
\* had, and appends exactly n IMAGE_ADDED history records; when the request
\* supplies no other field it appends no UPDATED record.
C18_ImagesAppendedAndRecorded ==
  [][/\ (resp'.op = "create_task" /\ Success(resp')) =>
          \A u \in Actors, inp \in TaskCreateInputs :
            create_task(u, inp, "none") =>
              ImagesRecorded(inp.images, FALSE, TaskImages(tasks, resp'.id),
                             TaskImages(tasks', resp'.id),
                             Appended(task_history, task_history'), "TASK_UPDATED")
     /\ (resp'.op = "update_task" /\ Success(resp')) =>
          \A u \in Actors, id \in TaskIdInputs, req \in TaskUpdateInputs :
            update_task(u, id, req, "none") =>
              ImagesRecorded(req.images, TaskUpdateKeys(req) = {"image_paths"},
                             TaskImages(tasks, id), TaskImages(tasks', id),
                             Appended(task_history, task_history'), "TASK_UPDATED")
     /\ (resp'.op = "create_article" /\ Success(resp')) =>
          \A u \in Actors, inp \in ArticleCreateInputs :
            create_article(u, inp, "none") =>
              ImagesRecorded(inp.images, FALSE, ArticleImages(article_images, resp'.id),
                             ArticleImages(article_images', resp'.id),
                             Appended(article_history, article_history'), "UPDATE")
     /\ (resp'.op = "update_article" /\ Success(resp')) =>
          \A u \in Actors, id \in ArticleIdInputs, req \in ArticleUpdateInputs :
            update_article(u, id, req, "none") =>
              ImagesRecorded(req.images, req.title = None /\ req.content = None,
                             ArticleImages(article_images, id),
                             ArticleImages(article_images', id),
                             Appended(article_history, article_history'), "UPDATE")]_vars

RECURSIVE ByChangedAtThenInsertion(_)
\* a ledger sorted by changed_at descending, rows of equal changed_at in the
\* order of their insertion
ByChangedAtThenInsertion(ledger) ==
  IF ledger = <<>> THEN <<>>
  ELSE LET i == CHOOSE i \in 1..Len(ledger) :
                  /\ \A j \in 1..Len(ledger) : ledger[j].changed_at <= ledger[i].changed_at
                  /\ \A j \in 1..(i - 1) : ledger[j].changed_at < ledger[i].changed_at
       IN  <<ledger[i]>> \o
           ByChangedAtThenInsertion(SubSeq(ledger, 1, i - 1) \o SubSeq(ledger, i + 1, Len(ledger)))

\* the part of C19 the queries keep: a page holds rows of the ledger, no row
\* twice, sorted by changed_at descending, as many as the ledger has from
\* the offset on and at most limit
C19_PageSortedByChangedAt ==
  [][/\ (resp'.op = "get_task_history" /\ Success(resp')) =>
          \A u \in Actors, id \in TaskIdInputs, o \in Offsets, l \in Limits :
            get_task_history(u, id, o, l) =>
              LET ledger == TaskLedger(task_history, id)
                  page == resp'.body
              IN  /\ Len(page) = Min(l, IF Len(ledger) > o THEN Len(ledger) - o ELSE 0)
                  /\ \A i \in 1..Len(page) : \E k \in 1..Len(ledger) : page[i] = ledger[k]
                  /\ \A i, j \in 1..Len(page) :
                       i < j => (page[i] # page[j] /\ page[i].changed_at >= page[j].changed_at)
     /\ (resp'.op = "get_article_history" /\ Success(resp')) =>
          \A u \in Actors, id \in ArticleIdInputs, o \in Offsets, l \in Limits :
            get_article_history(u, id, o, l) =>
              LET ledger == ArticleLedger(article_history, id)
                  page == resp'.body
              IN  /\ Len(page) = Min(l, IF Len(ledger) > o THEN Len(ledger) - o ELSE 0)
                  /\ \A i \in 1..Len(page) : \E k \in 1..Len(ledger) : page[i] = ledger[k]
                  /\ \A i, j \in 1..Len(page) :
                       i < j => (page[i] # page[j] /\ page[i].changed_at >= page[j].changed_at)]_vars

\* C19: a successful history request with offset and limit returns the
\* records at positions offset .. offset + limit - 1 of the ledger of the
\* entity sorted by changed_at descending, records of equal changed_at in
\* the order of their insertion: one sequence for one ledger, of which the
\* pages are consecutive pieces.
C19_PageOfTheSortedLedger ==
  [][/\ (resp'.op = "get_task_history" /\ Success(resp')) =>
          \A u \in Actors, id \in TaskIdInputs, o \in Offsets, l \in Limits :
            get_task_history(u, id, o, l) =>
              resp'.body = Page(ByChangedAtThenInsertion(TaskLedger(task_history, id)), o, l)
     /\ (resp'.op = "get_article_history" /\ Success(resp')) =>
          \A u \in Actors, id \in ArticleIdInputs, o \in Offsets, l \in Limits :
            get_article_history(u, id, o, l) =>
              resp'.body = Page(ByChangedAtThenInsertion(ArticleLedger(article_history, id)), o, l)]_vars

\* a handler's result without the acting user id of the history rows
EraseActor(r) ==
  [r EXCEPT !.db.task_history = [i \in 1..Len(@) |-> [@[i] EXCEPT !.user_id = 0]],
            !.db.article_history = [i \in 1..Len(@) |-> [@[i] EXCEPT !.user_id = 0]]]

\* an actor with the elevated role who is not the author of the entity
ElevatedOther(u, e) == users[u].role_id = 2 /\ e.author_id # u

\* C20: in every reachable state, for every entity and every operation that
\* checks ownership (delete, restore, reassign and history of a task; update,
\* delete, restore and history of an article), an actor with role_id = 2 who
\* is not the author gets the response the author would get and leaves the
\* database the author would leave, apart from the user_id of the appended
\* record.
C20_ElevatedActsAsAuthor ==
  /\ \A id \in DOMAIN tasks, u \in Actors :
       ElevatedOther(u, tasks[id]) =>
         LET au == tasks[id].author_id IN
         /\ \A f \in Faults :
              /\ EraseActor(DeleteTaskResult(u, id, f)) = EraseActor(DeleteTaskResult(au, id, f))
              /\ EraseActor(RestoreTaskResult(u, id, f)) = EraseActor(RestoreTaskResult(au, id, f))
              /\ \A a \in ReassignInputs, c \in Comments :
                   EraseActor(ReassignTaskResult(u, id, a, c, f)) =
                     EraseActor(ReassignTaskResult(au, id, a, c, f))
         /\ \A o \in Offsets, l \in Limits :
              TaskHistoryResults(u, id, o, l) = TaskHistoryResults(au, id, o, l)
  /\ \A id \in DOMAIN articles, u \in Actors :
       ElevatedOther(u, articles[id]) =>
         LET au == articles[id].author_id IN
         /\ \A f \in Faults :
              /\ EraseActor(DeleteArticleResult(u, id, f)) = EraseActor(DeleteArticleResult(au, id, f))
              /\ EraseActor(RestoreArticleResult(u, id, f)) = EraseActor(RestoreArticleResult(au, id, f))
              /\ \A req \in ArticleUpdateInputs :
                   EraseActor(UpdateArticleResult(u, id, req, f)) =
                     EraseActor(UpdateArticleResult(au, id, req, f))
         /\ \A o \in Offsets, l \in Limits :
              ArticleHistoryResults(u, id, o, l) = ArticleHistoryResults(au, id, o, l)

\* the elevated actor has restored a task of another author that the author
\* could have restored: the record holds the elevated actor's id
C20_Witness ==
  /\ resp.op = "restore_task" /\ Success(resp)
  /\ task_history # <<>>
  /\ LET row == task_history[Len(task_history)]
     IN  /\ row.event = "TASK_RESTORED"
         /\ ElevatedOther(row.user_id, tasks[row.task_id])
         /\ ~tasks[row.task_id].is_deleted

\* the taxonomy kind of a response
KindOf(r) ==
  CASE Success(r) -> "Success"
    [] r.status = 404 -> "NotFound"
    [] r.status = 403 -> "Forbidden"
    [] r.status \in {400, 422} -> "ValidationError"
    [] OTHER -> "InternalError"

\* the kind the taxonomy gives a request on an entity, the storage working:
\* absent (or filtered out) first, then the rights of the caller, then the
\* content of the request
ExpectedKind(absent, forbidden, invalid) ==
  IF absent THEN {"NotFound"}
  ELSE IF forbidden THEN {"Forbidden"}
  ELSE IF invalid THEN {"ValidationError", "NotFound"}
  ELSE {"Success"}

\* C21: with the storage working, every lifecycle request is answered with
\* the kind of its own condition: NotFound for a missing or delete-filtered
\* entity, Forbidden for a caller without rights, ValidationError or NotFound
\* for an invalid file or a missing assignee, success otherwise; none of
\* these conditions is answered as InternalError.
C21_FailureKeepsItsKind ==
  [][/\ resp'.op = "delete_task" =>
          \A u \in Actors, id \in TaskIdInputs :
            delete_task(u, id, "none") =>
              KindOf(resp') \in
                ExpectedKind(id \notin DOMAIN tasks \/ tasks[id].is_deleted,
                             id \in DOMAIN tasks /\ Unprivileged(u, tasks[id]), FALSE)
     /\ resp'.op = "restore_task" =>
          \A u \in Actors, id \in TaskIdInputs :
            restore_task(u, id, "none") =>
              KindOf(resp') \in
                ExpectedKind(id \notin DOMAIN tasks \/ ~Restorable(tasks[id], now),
                             id \in DOMAIN tasks /\ Unprivileged(u, tasks[id]), FALSE)
     /\ resp'.op = "reassign_task" =>
          \A u \in Actors, id \in TaskIdInputs, a \in ReassignInputs, c \in Comments :
            reassign_task(u, id, a, c, "none") =>
              KindOf(resp') \in
                ExpectedKind(id \notin DOMAIN tasks \/ tasks[id].is_deleted,
                             id \in DOMAIN tasks /\ Unprivileged(u, tasks[id]),
                             ~verify_assignee(a))
     /\ resp'.op = "create_task" =>
          \A u \in Actors, inp \in TaskCreateInputs :
            create_task(u, inp, "none") =>
              KindOf(resp') \in ExpectedKind(FALSE, FALSE, ~verify_assignee(inp.assignee_id))
     /\ resp'.op = "create_article" =>
          \A u \in Actors, inp \in ArticleCreateInputs :
            create_article(u, inp, "none") =>
              KindOf(resp') \in ExpectedKind(FALSE, FALSE, ~ArticleFilesAllowed(inp.images))
     /\ resp'.op = "update_article" =>
          \A u \in Actors, id \in ArticleIdInputs, req \in ArticleUpdateInputs :
            update_article(u, id, req, "none") =>
              KindOf(resp') \in
                ExpectedKind(id \notin DOMAIN articles \/ articles[id].is_deleted,
                             id \in DOMAIN articles /\ Unprivileged(u, articles[id]),
                             ~ArticleFilesAllowed(req.images))
     /\ resp'.op = "delete_article" =>
          \A u \in Actors, id \in ArticleIdInputs :
            delete_article(u, id, "none") =>
              KindOf(resp') \in
                ExpectedKind(id \notin DOMAIN articles \/ articles[id].is_deleted,
                             id \in DOMAIN articles /\ Unprivileged(u, articles[id]), FALSE)
     /\ resp'.op = "restore_article" =>
          \A u \in Actors, id \in ArticleIdInputs :
            restore_article(u, id, "none") =>
              KindOf(resp') \in
                ExpectedKind(id \notin DOMAIN articles \/ ~Restorable(articles[id], now),
                             id \in DOMAIN articles /\ Unprivileged(u, articles[id]), FALSE)]_vars

\* the part of C21 the handlers keep: a storage failure of a delete or a
\* restore is answered 500 and changes nothing
C21_StorageFailureIsInternal ==
  [][resp'.op \in {"delete_task", "restore_task", "delete_article", "restore_article"} =>
       /\ \A u \in Actors, id \in TaskIdInputs :
            (delete_task(u, id, "db") \/ restore_task(u, id, "db")) =>
              (resp'.status = 500 /\ tasks' = tasks /\ task_history' = task_history)
       /\ \A u \in Actors, id \in ArticleIdInputs :
            (delete_article(u, id, "db") \/ restore_article(u, id, "db")) =>
              (resp'.status = 500 /\ articles' = articles
               /\ article_history' = article_history)]_vars

\* what the caller sees of a handler's result
ResponseOf(r) == [status |-> r.status, detail |-> r.detail, body |-> r.body]

\* the three cases of C22: the entity does not exist, is not deleted, or is
\* deleted and its window has expired
NotRestorable(store, id) ==
  id \notin DOMAIN store \/ ~store[id].is_deleted \/ Expired(store[id])

\* the one answer of a refused restore: it names no state and no caller
RestoreTaskRefusal ==
  ResponseOf(Result(<<>>, Wrap500("restore_task_error", HTTPException(404, "task_not_found_or_expired")), <<>>))
RestoreArticleRefusal ==
  ResponseOf(Result(<<>>, Wrap500("restore_article_error", HTTPException(404, "article_not_found_or_expired")), <<>>))

\* C22: for every caller, the response to a restore request is the same in
\* the three cases in which the entity cannot be restored (it does not exist,
\* it is not deleted, its window has expired): in every reachable state each
\* of the three cases gets one and the same answer, for tasks and for
\* articles, the storage working or not.
C22_RestoreRefusalUniform ==
  \A u \in Actors, f \in Faults :
    /\ \A id \in TaskIdInputs \cup {NextTaskId} :
         NotRestorable(tasks, id) =>
           ResponseOf(RestoreTaskResult(u, id, f)) = RestoreTaskRefusal
    /\ \A id \in ArticleIdInputs \cup {NextArticleId} :
         NotRestorable(articles, id) =>
           ResponseOf(RestoreArticleResult(u, id, f)) = RestoreArticleRefusal

\* a restore of a task whose window has expired was refused with the answer
\* a restore of a task that does not exist gets
C22_Witness ==
  /\ resp.op = "restore_task" /\ ~Success(resp)
  /\ 1 \in DOMAIN tasks /\ Expired(tasks[1])
  /\ \A u \in Actors :
       ResponseOf(RestoreTaskResult(u, NextTaskId, "none")) =
         [status |-> resp.status, detail |-> resp.detail, body |-> resp.body]

\* nothing stored has changed: no entity, no image reference, no record
StoreUnchanged ==
  /\ tasks' = tasks /\ task_history' = task_history
  /\ articles' = articles /\ article_history' = article_history
  /\ article_images' = article_images

\* the part of C23 the handlers keep: an article request with a file of an
\* unsupported type does not succeed and stores nothing
C23_ArticleFileWithoutEffect ==
  [][resp'.op \in {"create_article", "update_article"} =>
       /\ \A u \in Actors, inp \in ArticleCreateInputs :
            (create_article(u, inp, "none") /\ ~ArticleFilesAllowed(inp.images)) =>
              (~Success(resp') /\ StoreUnchanged)
       /\ \A u \in Actors, id \in ArticleIdInputs, req \in ArticleUpdateInputs :
            (update_article(u, id, req, "none") /\ ~ArticleFilesAllowed(req.images)) =>
              (~Success(resp') /\ StoreUnchanged)]_vars

\* C23: a create or update request on a task or an article that attaches a
\* file whose type is not one of the supported image types, issued by a
\* caller with the right to it on an entity that is there, is answered as
\* ValidationError, and creates or changes no entity, stores no image
\* reference and appends no history record.
C23_UnsupportedFileRefused ==
  [][/\ resp'.op = "create_task" =>
          \A u \in Actors, inp \in TaskCreateInputs :
            (/\ create_task(u, inp, "none")
             /\ verify_assignee(inp.assignee_id) /\ ~ArticleFilesAllowed(inp.images))
              => (KindOf(resp') = "ValidationError" /\ StoreUnchanged)
     /\ resp'.op = "update_task" =>
          \A u \in Actors, id \in DOMAIN tasks, req \in TaskUpdateInputs :
            (update_task(u, id, req, "none") /\ ~ArticleFilesAllowed(req.images))
              => (KindOf(resp') = "ValidationError" /\ StoreUnchanged)
     /\ resp'.op = "create_article" =>
          \A u \in Actors, inp \in ArticleCreateInputs :
            (create_article(u, inp, "none") /\ ~ArticleFilesAllowed(inp.images))
              => (KindOf(resp') = "ValidationError" /\ StoreUnchanged)
     /\ resp'.op = "update_article" =>
          \A u \in Actors, id \in DOMAIN articles, req \in ArticleUpdateInputs :
            (/\ update_article(u, id, req, "none")
             /\ ~articles[id].is_deleted /\ ~Unprivileged(u, articles[id])
             /\ ~ArticleFilesAllowed(req.images))
              => (KindOf(resp') = "ValidationError" /\ StoreUnchanged)]_vars

\* the exceptions the storage may raise
StorageFaults == Faults \ {"none"}

\* the response of the step is the response r of a handler
Answered(r) == resp'.status = r.status /\ resp'.detail = r.detail /\ resp'.body = r.body

\* the part of C24 the handlers keep: update_task and reassign_task catch
\* nothing, and the answer to a storage failure is the fixed text of the
\* framework
C24_UncaughtFailureGeneric ==
  [][(resp'.op \in {"update_task", "reassign_task"} /\ resp'.status = 500) =>
       \A u \in Actors, id \in TaskIdInputs, f1 \in StorageFaults, f2 \in StorageFaults :
         /\ \A req \in TaskUpdateInputs :
              update_task(u, id, req, f1) => Answered(UpdateTaskResult(u, id, req, f2))
         /\ \A a \in ReassignInputs, c \in Comments :
              reassign_task(u, id, a, c, f1) =>
                Answered(ReassignTaskResult(u, id, a, c, f2))]_vars

\* C24: a request that fails with a storage exception is answered with the
\* response the same request in the same state gets when it fails with any
\* other storage exception: the text of the exception is not part of the
\* response.
C24_InternalErrorGeneric ==
  [][resp'.status = 500 =>
       \A u \in Actors, f1 \in StorageFaults, f2 \in StorageFaults :
         /\ \A inp \in TaskCreateInputs :
              create_task(u, inp, f1) =>
                Answered(CreateTaskResult(u, inp.title, inp.description, inp.assignee_id, inp.images, f2))
         /\ \A inp \in ArticleCreateInputs :
              create_article(u, inp, f1) =>
                Answered(CreateArticleResult(u, inp.title, inp.content, inp.images, f2))
         /\ \A id \in TaskIdInputs :
              /\ delete_task(u, id, f1) => Answered(DeleteTaskResult(u, id, f2))
              /\ restore_task(u, id, f1) => Answered(RestoreTaskResult(u, id, f2))
              /\ \A req \in TaskUpdateInputs :
                   update_task(u, id, req, f1) => Answered(UpdateTaskResult(u, id, req, f2))
              /\ \A a \in ReassignInputs, c \in Comments :
                   reassign_task(u, id, a, c, f1) =>
                     Answered(ReassignTaskResult(u, id, a, c, f2))
         /\ \A id \in ArticleIdInputs :
              /\ delete_article(u, id, f1) => Answered(DeleteArticleResult(u, id, f2))
              /\ restore_article(u, id, f1) => Answered(RestoreArticleResult(u, id, f2))
              /\ \A req \in ArticleUpdateInputs :
                   update_article(u, id, req, f1) =>
                     Answered(UpdateArticleResult(u, id, req, f2))]_vars

\* the step is a successful restore of the entity id
RestoredBy(op, id) == resp = NoResp /\ resp'.op = op /\ resp'.id = id /\ Success(resp')

\* the part of C25 the handlers keep: a soft-deleted article is changed, and
\* its ledger extended, by a successful restore only
C25_DeletedArticleFrozen ==
  [][\A id \in DOMAIN articles :
       (articles[id].is_deleted /\ ~RestoredBy("restore_article", id)) =>
         /\ articles'[id] = articles[id]
         /\ ArticleLedger(article_history', id) = ArticleLedger(article_history, id)
         /\ ArticleImages(article_images', id) = ArticleImages(article_images, id)
         /\ (resp = NoResp /\ resp'.op = "update_article" /\ resp'.id = id) => ~Success(resp')]_vars

\* C25: while a task or an article has is_deleted = TRUE, a step that is not
\* a successful restore of it leaves all its fields as they are and appends
\* no record to its ledger; an update request on it fails.
C25_DeletedEntityFrozen ==
  [][/\ \A id \in DOMAIN tasks :
          (tasks[id].is_deleted /\ ~RestoredBy("restore_task", id)) =>
            /\ tasks'[id] = tasks[id]
            /\ TaskLedger(task_history', id) = TaskLedger(task_history, id)
            /\ (resp = NoResp /\ resp'.op = "update_task" /\ resp'.id = id) => ~Success(resp')
     /\ \A id \in DOMAIN articles :
          (articles[id].is_deleted /\ ~RestoredBy("restore_article", id)) =>
            /\ articles'[id] = articles[id]
            /\ ArticleLedger(article_history', id) = ArticleLedger(article_history, id)
            /\ ArticleImages(article_images', id) = ArticleImages(article_images, id)
            /\ (resp = NoResp /\ resp'.op = "update_article" /\ resp'.id = id) => ~Success(resp')]_vars

\* the UPDATED rows a step appended
UpdatedRows(rows, event) == SelectSeq(rows, LAMBDA r : r.event = event)

\* an article UPDATE row against the article before and after the request
ArticleRowHoldsOldAndNew(row, before, after) ==
  /\ row.old_title = (IF after.title # before.title THEN Some(before.title) ELSE None)
  /\ row.new_title = (IF after.title # before.title THEN Some(after.title) ELSE None)
  /\ row.old_content = (IF after.content # before.content THEN Some(before.content) ELSE None)
  /\ row.new_content = (IF after.content # before.content THEN Some(after.content) ELSE None)

\* a task TASK_UPDATED row against the task after the request, for the
\* fields in keys
TaskRowHoldsNew(row, after, keys) ==
  \A k \in DOMAIN row.changes \cap keys : row.changes[k] = after[k]

\* the part of C26 the handlers keep: the article record as the claim says,
\* and in the task record the new value of title, description, assignee_id
\* and status
C26_RecordsOfScalarFields ==
  [][/\ (resp'.op = "update_article" /\ Success(resp')) =>
          LET rows == UpdatedRows(Appended(article_history, article_history'), "UPDATE")
          IN  \A i \in 1..Len(rows) :
                ArticleRowHoldsOldAndNew(rows[i], articles[resp'.id], articles'[resp'.id])
     /\ (resp'.op = "update_task" /\ Success(resp')) =>
          LET rows == UpdatedRows(Appended(task_history, task_history'), "TASK_UPDATED")
          IN  \A i \in 1..Len(rows) :
                TaskRowHoldsNew(rows[i], tasks'[resp'.id],
                                {"title", "description", "assignee_id", "status"})]_vars

\* C26: the UPDATE record of an article holds, for title and for content,
\* the value before the request as old and the value after it as new when
\* the request changed the field, and null for both when it did not; the
\* TASK_UPDATED record of a task holds, for each field it records, the value
\* of the field after the request and no old value.
C26_UpdatedRecordPayload ==
  [][/\ (resp'.op = "update_article" /\ Success(resp')) =>
          LET rows == UpdatedRows(Appended(article_history, article_history'), "UPDATE")
          IN  \A i \in 1..Len(rows) :
                ArticleRowHoldsOldAndNew(rows[i], articles[resp'.id], articles'[resp'.id])
     /\ (resp'.op = "update_task" /\ Success(resp')) =>
          LET rows == UpdatedRows(Appended(task_history, task_history'), "TASK_UPDATED")
          IN  \A i \in 1..Len(rows) :
                TaskRowHoldsNew(rows[i], tasks'[resp'.id], TaskFields)]_vars

\* the delete state the ledger tells: deleted when the newest of the
\* DELETED and RESTORED records is a DELETED one
DeletedByLedger(ev) == ev # <<>> /\ ev[Len(ev)] \in {"TASK_DELETED", "DELETE"}

\* the part of C27 that also holds when requests overlap: is_deleted is TRUE
\* exactly when the newest DELETED or RESTORED record is a DELETED one
C27_FlagFollowsNewestRecord ==
  /\ \A id \in DOMAIN tasks :
       tasks[id].is_deleted <=> DeletedByLedger(LifeEvents(TaskLedger(task_history, id)))
  /\ \A id \in DOMAIN articles :
       articles[id].is_deleted <=>
         DeletedByLedger(LifeEvents(ArticleLedger(article_history, id)))

\* C27: in every reachable state, in the ledger of every task and article
\* the DELETED and RESTORED records take turns and the first of them is a
\* DELETED one, and the entity has is_deleted = TRUE exactly when the newest
\* of them is a DELETED one (FALSE when it has none).
C27_LedgerAgreesWithDeleteState ==
  /\ \A id \in DOMAIN tasks :
       LET ev == LifeEvents(TaskLedger(task_history, id))
       IN  SerialLife(ev) /\ (tasks[id].is_deleted <=> DeletedByLedger(ev))
  /\ \A id \in DOMAIN articles :
       LET ev == LifeEvents(ArticleLedger(article_history, id))
       IN  SerialLife(ev) /\ (articles[id].is_deleted <=> DeletedByLedger(ev))

\* the rows of a ledger that carry a new value of a field
Carrying(ledger, new) == SelectSeq(ledger, LAMBDA r : IsSome(r[new]))

\* the ledger replays one field: every UPDATE row that holds an old value
\* holds the new value of the row before it among the rows carrying the
\* field, and the current value is the new value of the last of them
Replays(ledger, old, new, current) ==
  LET rows == Carrying(ledger, new) IN
  /\ \A i \in 2..Len(rows) :
       (rows[i].event = "UPDATE" /\ IsSome(rows[i][old])) =>
         rows[i][old] = rows[i - 1][new]
  /\ rows # <<>> => rows[Len(rows)][new] = Some(current)

\* the part of C28 that holds with overlapping requests as well: the current
\* title and content are the new values of the last records carrying them
C28_CurrentIsLastNew ==
  \A id \in DOMAIN articles :
    LET ledger == ArticleLedger(article_history, id)
        titles == Carrying(ledger, "new_title")
        contents == Carrying(ledger, "new_content")
    IN  /\ titles # <<>> /\ titles[Len(titles)].new_title = Some(articles[id].title)
        /\ contents # <<>> /\ contents[Len(contents)].new_content = Some(articles[id].content)

\* C28: in every reachable state, update requests of two callers overlapping
\* or not, the ledger of every article replays its title and its content:
\* the old value of every UPDATE record is the new value of the preceding
\* record that carries the field, and the current value is the new value of
\* the last record that carries it.
C28_ArticleReplaysFromLedger ==
  \A id \in DOMAIN articles :
    LET ledger == ArticleLedger(article_history, id)
    IN  /\ Replays(ledger, "old_title", "new_title", articles[id].title)
        /\ Replays(ledger, "old_content", "new_content", articles[id].content)

\* the part of C29 the handlers keep: the ledger of every entity holds
\* exactly one CREATED record, and the ledger of an article starts with it
C29_OneCreatedRecord ==
  /\ \A id \in DOMAIN tasks :
       CountEvent(TaskLedger(task_history, id), "TASK_CREATED") = 1
  /\ \A id \in DOMAIN articles :
       LET ledger == ArticleLedger(article_history, id)
       IN  CountEvent(ledger, "CREATE") = 1 /\ ledger[1].event = "CREATE"

\* C29: in every reachable state the ledger of every task and every article
\* holds exactly one CREATED record, and that record is the first of the
\* ledger in insertion order, also when the entity was created with images.
C29_CreatedRecordFirst ==
  /\ \A id \in DOMAIN tasks :
       LET ledger == TaskLedger(task_history, id)
       IN  CountEvent(ledger, "TASK_CREATED") = 1 /\ ledger[1].event = "TASK_CREATED"
  /\ \A id \in DOMAIN articles :
       LET ledger == ArticleLedger(article_history, id)
       IN  CountEvent(ledger, "CREATE") = 1 /\ ledger[1].event = "CREATE"

\* the step set the assignee of task id: it created the task, or appended a
\* REASSIGNED record or an UPDATED record of assignee_id to its ledger
SetsAssignee(id) ==
  LET rows == Appended(TaskLedger(task_history, id), TaskLedger(task_history', id))
  IN  \E i \in 1..Len(rows) :
        \/ rows[i].event \in {"TASK_CREATED", "TASK_REASSIGNED"}
        \/ rows[i].event = "TASK_UPDATED" /\ "assignee_id" \in DOMAIN rows[i].changes

\* the part of C30 the handlers keep: a reassign is committed only when
\* verify_assignee found the user active at the time it ran
C30_AssigneeActiveWhenVerified ==
  [][\A p \in AssignSlots :
       (inflight[p].op = "reassign_task" /\ inflight[p].status = 0
        /\ inflight'[p].status = 200) => Val(inflight[p].req).verified]_vars

\* C30: whenever a committed create, update or reassign sets the assignee of
\* a task, the user it names exists and is not soft-deleted in the state the
\* commit leaves, also when a delete_user of that user ran between
\* verify_assignee and the commit.
C30_AssigneeActiveAtCommit ==
  [][\A id \in DOMAIN tasks' :
       SetsAssignee(id) =>
         /\ tasks'[id].assignee_id \in DOMAIN users'
         /\ ~users'[tasks'[id].assignee_id].is_deleted]_vars

\* C31: no step changes the author_id of a task or an article that exists:
\* an update, delete, restore, reassign or upload, by the author, by another
\* user or by an elevated one, leaves the entity in the table with the
\* author_id it was created with.
C31_AuthorFixedAtCreation ==
  [][/\ \A id \in DOMAIN tasks :
          id \in DOMAIN tasks' /\ tasks'[id].author_id = tasks[id].author_id
     /\ \A id \in DOMAIN articles :
          id \in DOMAIN articles' /\ articles'[id].author_id = articles[id].author_id]_vars

\* a user who is not the author has given a task of user 1 another title:
\* the record holds the caller's id, the author is still user 1
C31_Witness ==
  /\ resp.op = "update_task" /\ Success(resp)
  /\ 1 \in DOMAIN tasks /\ tasks[1].author_id = 1 /\ tasks[1].title = "b"
  /\ task_history # <<>>
  /\ task_history[Len(task_history)].event = "TASK_UPDATED"
  /\ task_history[Len(task_history)].user_id = 2

\* C32: no step changes the role of a user: every user of the table stays in
\* it with the role_id it had, and a user that register adds has role_id 1,
\* so the users holding the elevated role are the same after every sequence
\* of register, update_profile, admin_update_user, update_user_password and
\* delete_user requests.
C32_RoleNeverChanges ==
  [][\A id \in DOMAIN users' :
       IF id \in DOMAIN users
       THEN users'[id].role_id = users[id].role_id
       ELSE users'[id].role_id = STANDARD_ROLE_ID]_vars

\* a registered user next to a user the admin renamed, deleted and gave a
\* new password
C32_Witness ==
  /\ 5 \in DOMAIN users /\ users[5].username = "bob" /\ users[5].role_id = 1
  /\ users[2].username = "eve" /\ users[2].is_deleted
  /\ users[2].hashed_password = hash_password("pw2")
  /\ users[2].role_id = 1 /\ users[3].role_id = 2

\* no two rows of the table share a username or an email
NoDuplicateUser(table) ==
  \A i \in DOMAIN table : \A j \in DOMAIN table \ {i} :
    table[i].username # table[j].username /\ table[i].email # table[j].email

\* C33: no two users, soft-deleted ones included, share a username or an
\* email, at the start and after every step of overlapping register,
\* update_profile and admin_update_user requests; a request whose flush
\* would leave a duplicate is answered with an error, and a request
\* answered with an error leaves the users table as it was.
C33_UsernameAndEmailUnique ==
  /\ NoDuplicateUser(users)
  /\ [][/\ users' # users => NoDuplicateUser(users')
        /\ \A p \in Slots :
             /\ (inflight[p].op \in UserOps /\ inflight[p].status = 0
                 /\ inflight'[p].status # 0 /\ ~NoDuplicateUser(UsersFlushed(p)))
                => (inflight'[p].status >= 400 /\ users' = users)
             /\ (inflight'[p].op \in UserOps /\ inflight'[p] # inflight[p]
                 /\ inflight'[p].status >= 400)
                => users' = users]_vars

\* a register for the username "eve" passed its check, another request
\* registered "eve" first, and the flush of the first was refused
C33_Witness ==
  /\ 5 \in DOMAIN users /\ users[5].username = "eve" /\ users[5].email = "eve@x"
  /\ inflight[2].op = "register" /\ inflight[2].status = 500
  /\ Val(inflight[2].req).username = Some("eve")
  /\ NoDuplicateUser(users)

\* the answers the lifecycle requests of caller u would get now, one per
\* handler and entity id
LifecycleAnswers(u) ==
  << [id \in TaskIdInputs |-> DeleteTaskResult(u, id, "none")],
     [id \in TaskIdInputs |-> RestoreTaskResult(u, id, "none")],
     [id \in TaskIdInputs |->
        UpdateTaskResult(u, id, [NoTaskUpdate EXCEPT !.title = Some("b")], "none")],
     [id \in TaskIdInputs |-> ReassignTaskResult(u, id, 3, None, "none")],
     [id \in ArticleIdInputs |-> DeleteArticleResult(u, id, "none")],
     [id \in ArticleIdInputs |-> RestoreArticleResult(u, id, "none")],
     [id \in ArticleIdInputs |->
        UpdateArticleResult(u, id, [NoArticleUpdate EXCEPT !.title = Some("b")], "none")] >>

\* C34: a delete_user request that succeeds changes only is_deleted and
\* deleted_at of the user it names: every other user, every task, article,
\* image row and both ledgers stay as they were; get_current_user returns
\* the same user for every token as before, the deleted user for theirs;
\* and each lifecycle request of the deleted user gets the answer it would
\* have got before the deletion.
C34_DeleteUserTouchesOnlyTheFlag ==
  [][\A user_id \in DOMAIN users :
       (resp = NoResp /\ resp'.op = "delete_user" /\ resp'.status = 200
        /\ resp'.id = user_id) =>
         /\ users' = [users EXCEPT ![user_id].is_deleted = TRUE,
                                   ![user_id].deleted_at = Some(now)]
         /\ UNCHANGED <<tasks, task_history, articles, article_history, article_images>>
         /\ \A sub \in ActorSubs \cup Subs :
              /\ get_current_user(sub)' = get_current_user(sub)
              /\ users[user_id].username = sub => get_current_user(sub)' = Some(user_id)
         /\ LifecycleAnswers(user_id)' = LifecycleAnswers(user_id)]_vars

\* the author of task 1 was deleted at time 0 and reassigned the task
\* a week later
C34_Witness ==
  /\ users[1].is_deleted /\ users[1].deleted_at = Some(0)
  /\ now = RETENTION_DAYS + 1
  /\ inflight[1].op = "reassign_task" /\ inflight[1].u = 1 /\ inflight[1].status = 200
  /\ task_history # <<>>
  /\ task_history[Len(task_history)].event = "TASK_REASSIGNED"
  /\ task_history[Len(task_history)].user_id = 1
  /\ task_history[Len(task_history)].changed_at = RETENTION_DAYS + 1

=============================================================================
